---------------------------- MODULE Spec2Model ----------------------------
(***************************************************************************)
(* Model of pyDmdReader's sample-retrieval engine (DmdReader in            *)
(* src/pyDmdReader/_dmd_reader.py) and of its channel catalog/resolver.    *)
(*                                                                         *)
(* Time is counted in integer ticks.  A sample frequency is the rational   *)
(* fnum/fden samples per tick; a synchronous sweep of period p ticks has   *)
(* frequency 1/p, an asynchronous sweep has frequency 0/1.  Python's       *)
(* int(x) on a float is truncation towards zero and is modelled by         *)
(* TruncDiv on the exact rational (floating-point rounding is not          *)
(* modelled).  An Optional value is a tuple: <<>> is None, <<v>> is v.     *)
(* A sample is identified by its native sample index; its timestamp is     *)
(* looked up in the recording (TsOf).                                      *)
(***************************************************************************)
EXTENDS Integers, Sequences, FiniteSets, TLC

VARIABLES ch, req, rd, cat, channel_id, ret, ch_names, gth, dmd, frame, life

vars == <<ch, req, rd, cat, channel_id, ret, ch_names, gth, dmd, frame, life>>

\* the state of the read engine, and the state of the channel catalog
engineVars == <<ch, req, rd>>

catalogVars == <<cat, channel_id, ret, ch_names, gth>>

\* the reader's recording attributes with the read channel's configuration,
\* the value a read has returned, and the reader's file handle
tableVars == <<dmd, frame, life>>

----------------------------------------------------------------------------
(* Bounds of the model *)

\* most samples in one generated sweep
MaxSweepSamples == 3
\* the block size of the block-wise loops (the program uses 1000000)
BlockSize == 2
\* the largest request time, in ticks
MaxTime == 6
\* the largest max_samples cap a request carries
MaxBudget == 2
\* most channels in a generated catalog
MaxChannels == 2
\* most channel references in one multi-channel read
MaxNames == 2
\* most explicit close() calls on one reader
MaxCloses == 2
\* the ticks of one second
TicksPerSecond == 2

----------------------------------------------------------------------------
(* Optional values and Python arithmetic *)

None == <<>>

Some(v) == <<v>>

IsNone(o) == o = <<>>

Val(o) == o[1]

Min(a, b) == IF a <= b THEN a ELSE b

Max(a, b) == IF a >= b THEN a ELSE b

\* int(a / b) for b > 0: truncation towards zero
TruncDiv(a, b) == IF a >= 0 THEN a \div b ELSE -((-a) \div b)

RECURSIVE SeqSum(_)
SeqSum(s) == IF s = <<>> THEN 0 ELSE Head(s) + SeqSum(Tail(s))

\* the first n elements of s (numpy slice s[:n] for 0 <= n)
Take(s, n) == SubSeq(s, 1, Min(n, Len(s)))

----------------------------------------------------------------------------
(* Sweeps and the recording behind them *)

\* Sweep.max_samples
SweepMaxSamples(sw) == sw.last_sample - sw.first_sample + 1

\* a synchronous sweep: n samples, one every period ticks from start
SyncSweep(first, start, n, period) ==
  [first_sample |-> first, last_sample |-> first + n - 1,
   start_time |-> start, end_time |-> start + (n - 1) * period,
   fnum |-> 1, fden |-> period,
   stamps |-> [i \in 1..n |-> start + (i - 1) * period]]

\* an asynchronous sweep: sample i+1 comes incs[i] ticks after sample i
AsyncSweep(first, start, incs) ==
  [first_sample |-> first, last_sample |-> first + Len(incs),
   start_time |-> start, end_time |-> start + SeqSum(incs),
   fnum |-> 0, fden |-> 1,
   stamps |-> [i \in 1..(Len(incs) + 1) |-> start + SeqSum(SubSeq(incs, 1, i - 1))]]

IsAsync(sw) == sw.fnum = 0

\* the sweeps of channel c that hold native sample index i
Holders(c, i) == {k \in 1..Len(c) : c[k].first_sample <= i /\ i <= c[k].last_sample}

Exists(c, i) == Holders(c, i) # {}

\* the timestamp the recording holds for native sample i
TsOf(c, i) ==
  LET k == CHOOSE k \in Holders(c, i) : TRUE
  IN  c[k].stamps[i - c[k].first_sample + 1]

RECURSIVE NumValid(_, _, _)
\* num_valid_samples of a native fetch: the samples that exist from
\* first_sample on, at most max_samples of them
NumValid(c, first, max) ==
  IF max <= 0 \/ ~Exists(c, first) THEN 0
  ELSE 1 + NumValid(c, first + 1, max - 1)

\* the native fetch: the sample indices returned and next_sample
NativeFetch(c, first, max) ==
  LET nv == NumValid(c, first, max)
  IN  [samples |-> [i \in 1..nv |-> first + i - 1], next_sample |-> first + nv]

----------------------------------------------------------------------------
(* __get_corrected_sample_count *)

StartOffset(sw) ==
  TruncDiv(sw.first_sample * sw.fden - sw.start_time * sw.fnum, sw.fden)

\* a corrector that shifts the range and does not clamp it to the sweep
GetCorrectedSampleCountUnclamped(sw, start_sample, end_sample) ==
  LET off == StartOffset(sw)
      e   == IF IsNone(end_sample) THEN sw.last_sample ELSE Val(end_sample) + off
  IN  <<start_sample + off, e - (start_sample + off) + 1>>

\* <<start_sample, count>>; end_sample is an Optional
GetCorrectedSampleCount(sw, start_sample, end_sample) ==
  LET off == StartOffset(sw)
      s0  == start_sample + off
      s   == IF s0 < sw.first_sample THEN sw.first_sample ELSE s0
      e   == IF IsNone(end_sample) \/ Val(end_sample) + off > sw.last_sample
             THEN sw.last_sample ELSE Val(end_sample) + off
  IN  <<s, e - s + 1>>

----------------------------------------------------------------------------
(* The state of one read of one channel: the local variables of            *)
(* __get_all_sweeps / __get_ranged_sweeps and what the read has done       *)

\* pc: "call" before the read, "for" at the head of the sweep loop, "while"
\* at the head of the block loop, "done" after return, "raise" after an
\* exception, "crash" after the native side wrote past a buffer
NewRead ==
  [op |-> "none", pc |-> "call", si |-> 1,
   first_sample |-> 0, last_sample |-> 0,
   max_sweep_samples |-> 0, old_max_sweep_samples |-> 0,
   max_samples |-> None, cap |-> None,
   start_time |-> 0, actual_end_time |-> 0,
   out |-> <<>>, fetched |-> {}, skipped |-> {}, fetch |-> None, dropped |-> 0,
   exc |-> "", ub |-> FALSE]

Raise(r, e) == [r EXCEPT !.pc = "raise", !.exc = e]

Return(r) == [r EXCEPT !.pc = "done"]

\* the allocation guard of the block loops:
\*   if old_max_sweep_samples != key: buffers = __init_sample_and_timestamp_arrays(size)
\* a ctypes array of negative length is a ValueError
Alloc(r, key, size) ==
  IF r.old_max_sweep_samples = key THEN r
  ELSE IF size < 0 THEN Raise(r, "ValueError")
  ELSE [r EXCEPT !.cap = Some(size)]

\* __get_single_sweep of max samples from first into the current buffers:
\* the record of the native call, and the samples it returns.  Buffers
\* that were never assigned are an UnboundLocalError; buffers smaller than
\* max let the native side write past their end, and numpy refuses to view
\* more samples than the buffer holds.
SingleSweep(c, r, first, max) ==
  IF r.pc = "raise" THEN [r |-> r, got |-> <<>>, next_sample |-> first]
  ELSE IF IsNone(r.cap)
  THEN [r |-> Raise(r, "UnboundLocalError"), got |-> <<>>, next_sample |-> first]
  ELSE
    LET f    == NativeFetch(c, first, max)
        over == max > Val(r.cap)
        r1   == [r EXCEPT !.fetched = @ \cup {r.si},
                          !.fetch = Some([first |-> first, max |-> max,
                                          cap |-> Val(r.cap), budget |-> r.max_samples,
                                          sweep |-> r.si]),
                          !.ub = @ \/ over]
    IN  IF Len(f.samples) > Val(r.cap)
        THEN [r |-> Raise(r1, "ValueError"), got |-> <<>>, next_sample |-> first]
        ELSE [r |-> r1, got |-> f.samples, next_sample |-> f.next_sample]

\* max_samples -= n, for a budget that is not None
Spend(budget, n) == IF IsNone(budget) THEN budget ELSE Some(Val(budget) - n)

Exhausted(budget) == ~IsNone(budget) /\ Val(budget) <= 0

\* a block size that ignores the budget
CappedNever(size, budget) == size

\* min(size, max_samples) when max_samples is not None
Capped(size, budget) == IF IsNone(budget) THEN size ELSE Min(size, Val(budget))

\* the block size of one iteration: block_size, or what is left to last
BlockOf(first, last) ==
  IF last - first + 1 >= BlockSize THEN BlockSize ELSE last - first + 1

----------------------------------------------------------------------------
(* __get_all_sweeps *)

\* a sweep loop that resumes one sample late: first_sample = sweep.first_sample + 1
AllForLate(c, r) ==
  IF r.si > Len(c) THEN Return(r)
  ELSE IF r.max_samples = Some(0) THEN Return(r)
  ELSE [r EXCEPT !.pc = "while", !.first_sample = c[r.si].first_sample + 1,
                 !.old_max_sweep_samples = 0]

\* the head of "for sweep in ch_config.sweeps"
AllFor(c, r) ==
  IF r.si > Len(c) THEN Return(r)
  ELSE IF r.max_samples = Some(0) THEN Return(r)
  ELSE [r EXCEPT !.pc = "while", !.first_sample = c[r.si].first_sample,
                 !.old_max_sweep_samples = 0]

\* one pass of "while first_sample <= sweep.last_sample"
AllWhile(c, r) ==
  LET sw == c[r.si]
  IN  IF ~(r.first_sample <= sw.last_sample)
      THEN [r EXCEPT !.pc = "for", !.si = @ + 1]
      ELSE
        LET m  == Capped(BlockOf(r.first_sample, sw.last_sample), r.max_samples)
            r1 == Alloc(r, m, m)
            g  == SingleSweep(c, r1, r.first_sample, m)
            b  == Spend(r.max_samples, Len(g.got))
            r2 == [g.r EXCEPT !.out = @ \o g.got,
                              !.first_sample = g.next_sample,
                              !.old_max_sweep_samples = m,
                              !.max_samples = b]
        IN  IF g.r.pc = "raise" THEN g.r
            ELSE IF Exhausted(b) THEN [r2 EXCEPT !.pc = "for", !.si = @ + 1]
            ELSE r2

----------------------------------------------------------------------------
(* __get_ranged_sweeps *)

\* int(time * sample_frequency) for the frequency num/den
TimeToSample(time, num, den) == TruncDiv(time * num, den)

\* sweep.start_time <= actual_end_time and sweep.end_time >= start_time
Overlaps(sw, start_time, actual_end_time) ==
  sw.start_time <= actual_end_time /\ sw.end_time >= start_time

\* the synchronous branch: one fetch of the corrected range
RangedSync(c, r) ==
  LET sw  == c[r.si]
      s   == TimeToSample(r.start_time, sw.fnum, sw.fden)
      e   == TimeToSample(r.actual_end_time, sw.fnum, sw.fden)
      fc  == GetCorrectedSampleCount(sw, s, Some(e))
      m   == Capped(fc[2], r.max_samples)
      r1  == Alloc(r, m, m)
      r1b == IF r1.pc = "raise" THEN r1 ELSE [r1 EXCEPT !.old_max_sweep_samples = m]
      g   == SingleSweep(c, r1b, fc[1], m)
  IN  IF g.r.pc = "raise" THEN g.r
      ELSE [g.r EXCEPT !.out = @ \o g.got,
                       !.max_samples = Spend(r.max_samples, Len(g.got)),
                       !.si = @ + 1]

\* the asynchronous branch up to its block loop: the sample frequency is
\* synthesized as (sweep.max_samples - 1) / (sweep.end_time - sweep.start_time)
RangedAsyncEnter(c, r) ==
  LET sw  == c[r.si]
      num == SweepMaxSamples(sw) - 1
      den == sw.end_time - sw.start_time
  IN  IF den = 0 THEN Raise(r, "ZeroDivisionError")
      ELSE
        LET s  == TimeToSample(r.start_time, num, den)
            e  == TimeToSample(r.actual_end_time, num, den)
            fc == GetCorrectedSampleCount(sw, s, Some(e))
        IN  [r EXCEPT !.pc = "while", !.first_sample = fc[1],
                      !.max_sweep_samples = fc[2],
                      !.last_sample = fc[1] + fc[2]]

\* the head of "for sweep in ch_config.sweeps"
RangedFor(c, r) ==
  IF r.si > Len(c) THEN Return(r)
  ELSE IF r.max_samples = Some(0) THEN Return(r)
  ELSE IF ~Overlaps(c[r.si], r.start_time, r.actual_end_time)
  THEN [r EXCEPT !.si = @ + 1, !.skipped = @ \cup {r.si}]
  ELSE IF ~IsAsync(c[r.si]) THEN RangedSync(c, r)
  ELSE RangedAsyncEnter(c, r)

\* a trim that keeps the first sample past the end
ArgmaxPastLate(c, got, actual_end_time) ==
  LET past == {i \in 1..Len(got) : TsOf(c, got[i]) > actual_end_time}
  IN  IF past = {} THEN 0
      ELSE CHOOSE i \in past : \A j \in past : i <= j

\* np.argmax(raw_timestamps > actual_end_time): the 0-based position of the
\* first timestamp past the end (0 when there is none)
ArgmaxPast(c, got, actual_end_time) ==
  LET past == {i \in 1..Len(got) : TsOf(c, got[i]) > actual_end_time}
  IN  IF past = {} THEN 0
      ELSE (CHOOSE i \in past : \A j \in past : i <= j) - 1

\* one pass of "while first_sample <= last_sample" of the asynchronous branch
RangedWhile(c, r) ==
  IF ~(r.first_sample <= r.last_sample)
  THEN [r EXCEPT !.pc = "for", !.si = @ + 1]
  ELSE
    LET bm  == Capped(BlockOf(r.first_sample, r.last_sample), r.max_samples)
        r1  == Alloc(r, r.max_sweep_samples, bm)
        r1b == IF r1.pc = "raise" THEN r1
               ELSE [r1 EXCEPT !.old_max_sweep_samples = r.max_sweep_samples]
        g   == SingleSweep(c, r1b, r.first_sample, bm)
        n   == Len(g.got)
        keep == IF n = 0 THEN <<>>
                ELSE IF TsOf(c, g.got[n]) <= r.actual_end_time THEN g.got
                ELSE Take(g.got, ArgmaxPast(c, g.got, r.actual_end_time))
        b   == IF n = 0 THEN r.max_samples ELSE Spend(r.max_samples, Len(keep))
        r2  == [g.r EXCEPT !.out = @ \o keep, !.max_samples = b,
                           !.dropped = n - Len(keep)]
    IN  IF g.r.pc = "raise" THEN g.r
        ELSE IF n > 0 /\ Exhausted(b) THEN [r2 EXCEPT !.pc = "for", !.si = @ + 1]
        ELSE [r2 EXCEPT !.first_sample = g.next_sample]

----------------------------------------------------------------------------
(* read_reduced: the loop over the reduced sweeps, c being the channel's   *)
(* reduced-sweep table and the native fetch the reduced-value fetch        *)

\* one pass of "for sweep in ch_config.reduced_sweeps"
ReducedFor(c, r) ==
  IF r.si > Len(c) THEN Return(r)
  ELSE
    LET sw  == c[r.si]
        m   == Capped(SweepMaxSamples(sw), r.max_samples)
        r1  == Alloc(r, m, m)
        r1b == IF r1.pc = "raise" THEN r1 ELSE [r1 EXCEPT !.old_max_sweep_samples = m]
        g   == SingleSweep(c, r1b, sw.first_sample, m)
        b   == Spend(r.max_samples, Len(g.got))
        r2  == [g.r EXCEPT !.out = @ \o g.got, !.max_samples = b, !.si = @ + 1]
    IN  IF g.r.pc = "raise" THEN g.r
        ELSE IF Exhausted(b) THEN Return(r2)
        ELSE r2

----------------------------------------------------------------------------
(* read_dataframe / read_array / read_reduced of one channel *)

\* the dispatch on the requested range, and the first line of
\* __get_ranged_sweeps: sweeps[-1] of an empty sweep list is an IndexError
Call(c, q) ==
  IF q.kind = "reduced"
  THEN [NewRead EXCEPT !.op = "reduced", !.pc = "for", !.max_samples = q.max_samples]
  ELSE IF q.start_time = 0 /\ IsNone(q.end_time)
  THEN [NewRead EXCEPT !.op = "all", !.pc = "for", !.max_samples = q.max_samples]
  ELSE IF IsNone(q.end_time) /\ Len(c) = 0
  THEN Raise([NewRead EXCEPT !.op = "ranged", !.max_samples = q.max_samples,
                             !.start_time = q.start_time], "IndexError")
  ELSE [NewRead EXCEPT !.op = "ranged", !.pc = "for",
                       !.max_samples = q.max_samples,
                       !.start_time = q.start_time,
                       !.actual_end_time = IF IsNone(q.end_time)
                                           THEN c[Len(c)].end_time
                                           ELSE Val(q.end_time)]

Running(r) == r.pc \in {"for", "while"}

\* one step of the read
Step(c, r) ==
  IF r.op = "reduced" THEN ReducedFor(c, r)
  ELSE IF r.op = "all"
  THEN IF r.pc = "for" THEN AllFor(c, r) ELSE AllWhile(c, r)
  ELSE IF r.pc = "for" THEN RangedFor(c, r) ELSE RangedWhile(c, r)

\* what a step can leave behind: a fetch into buffers smaller than the
\* native side was told is undefined behaviour, the process may end there
Outcomes(r, s) ==
  IF s.ub /\ ~r.ub THEN {s, [s EXCEPT !.pc = "crash"]} ELSE {s}

RECURSIVE Run(_, _, _)
\* the read run to its end (at most fuel steps)
Run(c, r, fuel) ==
  IF ~Running(r) \/ fuel = 0 THEN r ELSE Run(c, Step(c, r), fuel - 1)

----------------------------------------------------------------------------
(* The channels and requests the reads are checked on *)

Periods == {1, 2}

\* where a channel's first sweep lies: <<start_time, acquisition lead>>, the
\* lead being the native index of the sample recorded at time 0
Placements == {<<0, 1>>, <<2, 0>>}

SampleCounts == 1..MaxSweepSamples

\* the spacings of an asynchronous sweep of n samples
Spacings(n) == [1..(n - 1) -> Periods]

AllSpacings == UNION {Spacings(n) : n \in SampleCounts}

\* how far the native index of a second sweep lies past the first sweep's end
IndexGaps == {1, 2}

SyncFirst(p, pl, n) == SyncSweep(pl[1] \div p + pl[2], pl[1], n, p)

SyncSecond(s1, p, n, g) == SyncSweep(s1.last_sample + g, s1.end_time + 2 * p, n, p)

SyncChannels ==
  UNION {
    LET s1 == SyncFirst(p, pl, n)
    IN  {<<s1>>} \cup {<<s1, SyncSecond(s1, p, n2, g)>> : n2 \in SampleCounts, g \in IndexGaps}
    : p \in Periods, pl \in Placements, n \in SampleCounts}

AsyncFirst(pl, incs) == AsyncSweep(pl[1] + pl[2], pl[1], incs)

\* a second sweep of n evenly spaced samples
AsyncSecond(s1, n, g) ==
  AsyncSweep(s1.last_sample + g, s1.end_time + 2, [i \in 1..(n - 1) |-> 1])

AsyncChannels ==
  UNION {
    LET s1 == AsyncFirst(pl, incs)
    IN  {<<s1>>} \cup {<<s1, AsyncSecond(s1, n2, g)>> : n2 \in SampleCounts, g \in IndexGaps}
    : pl \in Placements, incs \in AllSpacings}

\* a channel whose sweeps mix zero and nonzero sample_frequency
MixedChannels ==
  {<<SyncSweep(1, 0, n, 1), AsyncSweep(n + 1, n + 1, incs)>> :
     n \in SampleCounts, incs \in AllSpacings}
  \cup
  {<<AsyncSweep(1, 0, incs), SyncSweep(Len(incs) + 2, SeqSum(incs) + 2, n, 1)>> :
     n \in SampleCounts, incs \in AllSpacings}

Channels == {<<>>} \cup SyncChannels \cup AsyncChannels \cup MixedChannels

Times == 0..MaxTime

Budgets == {None} \cup {Some(k) : k \in 1..MaxBudget}

Requests ==
  {[kind |-> "raw", start_time |-> s, end_time |-> e, max_samples |-> b] :
     s \in Times, e \in {None} \cup {Some(t) : t \in Times}, b \in Budgets}

ReducedRequests ==
  {[kind |-> "reduced", start_time |-> 0, end_time |-> None, max_samples |-> b] :
     b \in Budgets}

\* requests with start_time <= end_time
OrderedRequests ==
  {q \in Requests : IsNone(q.end_time) \/ q.start_time <= Val(q.end_time)}

----------------------------------------------------------------------------
(* The channel catalog (DmdReader.__channels) and the channel resolver *)

\* The catalog is the dict __get_channel_infos builds: an insertion-ordered
\* sequence of channels with pairwise distinct keys.  A key is the value
\* of the channel's c_void_p handle: an integer, or None for a NULL handle.
\* A channel's sample rate is the rational <<1, period>>.
\* max_sample_dimension is the number of values of one sample; samples is
\* the number of samples the channel has recorded.
ChannelWith(id, name, period, valid, dim, samples) ==
  [id |-> id, name |-> name, sample_rate |-> <<1, period>>, valid |-> valid,
   max_sample_dimension |-> dim, samples |-> samples]

\* a scalar channel with one sweep of two samples
Channel(id, name, period, valid) == ChannelWith(id, name, period, valid, 1, 2)

Keys(c) == {c[k].id : k \in 1..Len(c)}

\* self.__channels[key]
Lookup(c, key) == c[CHOOSE k \in 1..Len(c) : c[k].id = key]

\* a channel reference the caller passes: a str, an int or something else
StrRef(name) == [type |-> "str", name |-> name, id |-> 0]

IntRef(id) == [type |-> "int", name |-> "", id |-> id]

OtherRef == [type |-> "float", name |-> "", id |-> 0]

\* Python's truth value of a dict key held in `resolved`
Truthy(key) == ~IsNone(key) /\ Val(key) # 0

Raised(exc, msg) == [pc |-> "raise", exc |-> exc, msg |-> msg, id |-> None]

Returned(key) == [pc |-> "done", exc |-> "", msg |-> "", id |-> key]

\* the scan of __resolve_channel over the channels from position i on
RECURSIVE ScanByName(_, _, _, _)
ScanByName(c, name, i, resolved) ==
  IF i > Len(c)
  THEN IF IsNone(resolved)
       THEN Raised("KeyError", "not found")
       ELSE Returned(resolved)
  ELSE IF c[i].name = name
       THEN IF Truthy(resolved)
            THEN Raised("KeyError", "not unique")
            ELSE ScanByName(c, name, i + 1, c[i].id)
       ELSE ScanByName(c, name, i + 1, resolved)

\* channel_id not in self.__channels, mutated: every id is taken as known
UnknownIdNever(c, id) == FALSE

\* channel_id not in self.__channels
UnknownId(c, id) == Some(id) \notin Keys(c)

\* __resolve_channel
ResolveChannel(c, ref) ==
  IF ref.type = "int"
  THEN IF UnknownId(c, ref.id)
       THEN Raised("KeyError", "not found")
       ELSE Returned(Some(ref.id))
  ELSE IF ref.type = "str"
       THEN ScanByName(c, ref.name, 1, None)
       ELSE Raised("TypeError", "")

\* channel.name in result, mutated: a duplicate name goes unnoticed
NameTakenNever(result, name) == FALSE

\* channel.name in result
NameTaken(result, name) == \E k \in 1..Len(result) : result[k].name = name

\* result[channel.name] = channel
SetItem(result, channel) ==
  IF NameTaken(result, channel.name)
  THEN [k \in 1..Len(result) |->
          IF result[k].name = channel.name THEN channel ELSE result[k]]
  ELSE Append(result, channel)

\* the loop of the `channels` property from position i on
RECURSIVE ChannelsFrom(_, _, _)
ChannelsFrom(c, i, result) ==
  IF i > Len(c)
  THEN [pc |-> "done", exc |-> "", view |-> result]
  ELSE IF NameTaken(result, c[i].name)
       THEN [pc |-> "raise", exc |-> "KeyError", view |-> <<>>]
       ELSE ChannelsFrom(c, i + 1, SetItem(result, c[i]))

\* the `channels` property: the name-keyed view, as its items in order
ChannelsView(c) == ChannelsFrom(c, 1, <<>>)

\* the `allchannels` property: the id-keyed view is the catalog itself
AllChannelsView(c) == c

\* the order sorted() puts the names in
NameOrder == <<"a", "b", "c">>

RECURSIVE SortedFrom(_, _)
SortedFrom(list, n) ==
  IF n > Len(NameOrder) THEN <<>>
  ELSE SelectSeq(list, LAMBDA x : x = NameOrder[n]) \o SortedFrom(list, n + 1)

\* the `channel_names` property
ChannelNames(c) == SortedFrom([k \in 1..Len(c) |-> c[k].name], 1)

\* the `channel_ids` property
ChannelIds(c) == [k \in 1..Len(c) |-> c[k].id]

\* the request of a read with the default range and no cap
UnboundedRequest ==
  [kind |-> "raw", start_time |-> 0, end_time |-> None, max_samples |-> None]

\* the timestamps of a result
Timestamps(c, out) == [i \in 1..Len(out) |-> TsOf(c, out[i])]

\* a reader of which only the catalog or one channel's sweeps are looked at
NoRecording ==
  [name |-> "a", raw_sample_type |-> "DOUBLE", reduced_sample_type |-> "REDUCED",
   max_sample_dimension |-> 1,
   measurement_start_time_utc |-> [wall |-> 0, offset |-> 0],
   measurement_start_time_local |-> [wall |-> 0, offset |-> 0]]

\* nothing has been asked of the catalog yet
NoReturn ==
  [resolve |-> None, channels |-> None, allchannels |-> None,
   channel_names |-> None, channel_ids |-> None]

\* a reader that has not been constructed: no handle, no native call issued
\* scope is where the reader is in its with-statement, closes counts the
\* native close-file calls issued for the opened handle, calls the close()
\* calls made, and check is what the last native wrapper call has come to
NewLife ==
  [scope |-> "none", handle |-> "none", closes |-> 0, calls |-> 0,
   op |-> "none", pc |-> "call", exc |-> "", check |-> <<>>]

\* a multi-channel read before its first step
NewGather ==
  [op |-> "none", pc |-> "call", i |-> 1, used |-> <<>>, sample_rate |-> None,
   j |-> 1, result_timestamps |-> None, fetched |-> {}, exc |-> "", msg |-> "",
   timestamp_format |-> "SECONDS_SINCE_START", result_list |-> <<>>,
   data_frames |-> <<>>, ragged |-> FALSE, result |-> None]

----------------------------------------------------------------------------
(* The read engine as a state machine *)

Init ==
  /\ ch \in Channels
  /\ req \in OrderedRequests \cup ReducedRequests
  /\ rd = NewRead
  /\ cat = <<>> /\ channel_id = OtherRef /\ ret = NoReturn
  /\ ch_names = <<>> /\ gth = NewGather
  /\ dmd = NoRecording /\ frame = None /\ life = NewLife

\* read_dataframe / read_array is called
ReadCall ==
  /\ rd.pc = "call"
  /\ rd' = Call(ch, req)
  /\ UNCHANGED <<ch, req, catalogVars, tableVars>>

\* __get_all_sweeps runs one step
AllSweepsStep ==
  /\ Running(rd) /\ rd.op = "all"
  /\ rd' \in Outcomes(rd, Step(ch, rd))
  /\ UNCHANGED <<ch, req, catalogVars, tableVars>>

\* __get_ranged_sweeps runs one step
RangedSweepsStep ==
  /\ Running(rd) /\ rd.op = "ranged"
  /\ rd' \in Outcomes(rd, Step(ch, rd))
  /\ UNCHANGED <<ch, req, catalogVars, tableVars>>

\* read_reduced runs one step
ReducedSweepsStep ==
  /\ Running(rd) /\ rd.op = "reduced"
  /\ rd' \in Outcomes(rd, Step(ch, rd))
  /\ UNCHANGED <<ch, req, catalogVars, tableVars>>

Next == ReadCall \/ AllSweepsStep \/ RangedSweepsStep \/ ReducedSweepsStep

Spec == Init /\ [][Next]_vars

TypeOK ==
  /\ rd.pc \in {"call", "for", "while", "done", "raise", "crash"}
  /\ rd.exc \in {"", "ValueError", "UnboundLocalError", "ZeroDivisionError", "IndexError",
                "TypeError", "NotImplementedError"}

----------------------------------------------------------------------------
(* The catalog as a state machine: the resolver and the catalog views *)

\* the handle values of the generated channels: NULL (None) and three others
HandleValues == {None, Some(1), Some(2), Some(3)}

ChannelNameSet == {"a", "b"}

\* the catalogs of n channels with pairwise distinct keys
CatalogsOf(n, channels) ==
  {c \in [1..n -> channels] :
     \A k, l \in 1..n : c[k].id = c[l].id => k = l}

\* catalogs whose channels differ in handle and name only
Catalogs ==
  UNION {CatalogsOf(n, {Channel(id, name, 1, TRUE) :
                          id \in HandleValues, name \in ChannelNameSet})
           : n \in 0..MaxChannels}

\* the references a caller resolves
References ==
  {StrRef(name) : name \in ChannelNameSet \cup {"c"}}
    \cup {IntRef(id) : id \in 0..3} \cup {OtherRef}

InitCatalog ==
  /\ cat \in Catalogs
  /\ channel_id \in References
  /\ ret = NoReturn
  /\ ch = <<>> /\ req = UnboundedRequest /\ rd = NewRead
  /\ ch_names = <<>> /\ gth = NewGather
  /\ dmd = NoRecording /\ frame = None /\ life = NewLife

\* __resolve_channel(channel_id) is called
Resolve ==
  /\ IsNone(ret.resolve)
  /\ ret' = [ret EXCEPT !.resolve = Some(ResolveChannel(cat, channel_id))]
  /\ UNCHANGED <<engineVars, tableVars, cat, channel_id, ch_names, gth>>

\* the `channels` property is read
GetChannels ==
  /\ IsNone(ret.channels)
  /\ ret' = [ret EXCEPT !.channels = Some(ChannelsView(cat))]
  /\ UNCHANGED <<engineVars, tableVars, cat, channel_id, ch_names, gth>>

\* the `allchannels` property is read
GetAllChannels ==
  /\ IsNone(ret.allchannels)
  /\ ret' = [ret EXCEPT !.allchannels = Some(AllChannelsView(cat))]
  /\ UNCHANGED <<engineVars, tableVars, cat, channel_id, ch_names, gth>>

\* the `channel_names` property is read
GetChannelNames ==
  /\ IsNone(ret.channel_names)
  /\ ret' = [ret EXCEPT !.channel_names = Some(ChannelNames(cat))]
  /\ UNCHANGED <<engineVars, tableVars, cat, channel_id, ch_names, gth>>

\* the `channel_ids` property is read
GetChannelIds ==
  /\ IsNone(ret.channel_ids)
  /\ ret' = [ret EXCEPT !.channel_ids = Some(ChannelIds(cat))]
  /\ UNCHANGED <<engineVars, tableVars, cat, channel_id, ch_names, gth>>

NextCatalog ==
  Resolve \/ GetChannels \/ GetAllChannels \/ GetChannelNames \/ GetChannelIds

SpecCatalog == InitCatalog /\ [][NextCatalog]_vars

----------------------------------------------------------------------------
(* Tables and timestamp formats *)

SampleTypes ==
  {"INVALID", "DOUBLE", "REDUCED", "SINT32", "DOUBLE_VECTOR", "COMPLEX_VECTOR"}

TimestampFormats ==
  {"NONE", "SECONDS_SINCE_START", "ABSOLUTE_UTC_TIME", "ABSOLUTE_LOCAL_TIME"}

\* the flat value buffer of the samples out, dim values a sample: value j of
\* sample i is <<i, j>> and lies at the 0-based position (i - 1) * dim + j
Flat(out, dim) ==
  [p \in 1..(Len(out) * dim) |-> <<out[((p - 1) \div dim) + 1], (p - 1) % dim>>]

\* data[j::n]
Stride(data, j, n) ==
  [i \in 1..((Len(data) - j + n - 1) \div n) |-> data[j + (i - 1) * n + 1]]

\* a tz-aware pandas Timestamp is its wall-clock time with its UTC offset;
\* start_time + pd.to_timedelta(index, unit="s")
AbsTimestampPandas(d, index, utc) ==
  LET start_time == IF utc THEN d.measurement_start_time_utc
                    ELSE d.measurement_start_time_local
  IN  [i \in 1..Len(index) |->
         [wall |-> start_time.wall + index[i], offset |-> start_time.offset]]

\* pd.DataFrame(): no columns, no rows
EmptyFrame == [columns |-> <<>>, data |-> <<>>, index |-> None]

\* a table that gets its columns only when there are reduced samples
ReducedFrameBare(d, c, out, timestamp_format) ==
  IF out = <<>> THEN EmptyFrame
  ELSE [columns |-> <<"MIN", "MAX", "AVG", "RMS">>,
        data |-> [j \in 1..4 |-> Stride(Flat(out, 4), j - 1, 4)],
        index |-> None]

\* the table read_reduced builds of the reduced samples out: index None is
\* the default index of a frame made without timestamps
ReducedFrame(d, c, out, timestamp_format) ==
  LET data == Flat(out, 4)
      timestamps == Timestamps(c, out)
  IN  [columns |-> <<"MIN", "MAX", "AVG", "RMS">>,
       data |-> [j \in 1..4 |-> Stride(data, j - 1, 4)],
       index |->
         IF timestamp_format = "NONE" THEN None
         ELSE IF timestamp_format = "SECONDS_SINCE_START" THEN Some(timestamps)
         ELSE Some(AbsTimestampPandas(d, timestamps,
                                      timestamp_format = "ABSOLUTE_UTC_TIME"))]

\* a dispatch without the early return for the type INVALID
ReducedCallStrict(d, c, q) ==
  IF d.reduced_sample_type = "REDUCED" THEN Call(c, q)
  ELSE Raise([NewRead EXCEPT !.op = "reduced", !.max_samples = q.max_samples],
             "NotImplementedError")

\* the dispatch of read_reduced on the channel's reduced sample type
ReducedCall(d, c, q) ==
  IF d.reduced_sample_type = "INVALID"
  THEN Return([NewRead EXCEPT !.op = "reduced", !.max_samples = q.max_samples])
  ELSE IF d.reduced_sample_type = "REDUCED" THEN Call(c, q)
  ELSE Raise([NewRead EXCEPT !.op = "reduced", !.max_samples = q.max_samples],
             "NotImplementedError")

\* the channels read_reduced is called on
ReducedConfigs ==
  {[NoRecording EXCEPT !.reduced_sample_type = t,
                       !.measurement_start_time_local = [wall |-> o, offset |-> o]] :
     t \in SampleTypes, o \in {0, 1}}

\* the calls of read_reduced
TableRequests ==
  {[kind |-> "reduced", start_time |-> 0, end_time |-> None, max_samples |-> b,
    timestamp_format |-> f] : b \in Budgets, f \in TimestampFormats}

InitReduced ==
  /\ ch \in {<<>>} \cup SyncChannels
  /\ req \in TableRequests
  /\ dmd \in ReducedConfigs
  /\ rd = NewRead /\ frame = None /\ life = NewLife
  /\ cat = <<>> /\ channel_id = OtherRef /\ ret = NoReturn
  /\ ch_names = <<>> /\ gth = NewGather

\* read_reduced is called and looks at the reduced sample type
ReadReducedCall ==
  /\ rd.pc = "call"
  /\ rd' = ReducedCall(dmd, ch, req)
  /\ frame' = IF rd'.pc = "done" THEN Some(EmptyFrame) ELSE frame
  /\ UNCHANGED <<ch, req, dmd, life, catalogVars>>

\* read_reduced takes the next reduced sweep, and builds the table after the
\* last one
ReadReducedStep ==
  /\ Running(rd) /\ rd.op = "reduced"
  /\ rd' \in Outcomes(rd, Step(ch, rd))
  /\ frame' = IF rd'.pc = "done"
              THEN Some(ReducedFrame(dmd, ch, rd'.out, req.timestamp_format))
              ELSE frame
  /\ UNCHANGED <<ch, req, dmd, life, catalogVars>>

NextReduced == ReadReducedCall \/ ReadReducedStep

SpecReduced == InitReduced /\ [][NextReduced]_vars

----------------------------------------------------------------------------
(* What the recording holds, for stating the claims *)

\* the native indices first_sample..last_sample of one sweep, in order
SweepSamples(sw) == [i \in 1..SweepMaxSamples(sw) |-> sw.first_sample + i - 1]

RECURSIVE AllSamples(_)
\* the samples of every sweep of the channel, sweep after sweep
AllSamples(c) ==
  IF c = <<>> THEN <<>> ELSE SweepSamples(Head(c)) \o AllSamples(Tail(c))

Finished(r) == r.pc \in {"done", "raise", "crash"}

\* steps enough for any read of c that ends at all
Fuel(c) == 3 * Len(AllSamples(c)) + 3 * Len(c) + 3

\* the read the same request makes without a cap, run to its end
Uncapped(c, q) == Run(c, Call(c, [q EXCEPT !.max_samples = None]), Fuel(c))

Unbounded(q) == q.kind = "raw" /\ q.start_time = 0 /\ IsNone(q.end_time)

Ranged(q) == q.kind = "raw" /\ ~Unbounded(q)

----------------------------------------------------------------------------
(* Multi-channel reads: __gather_usable_channels, then one read a channel *)

\* what a generated channel has recorded: one synchronous sweep at the
\* channel's sample rate, or no sweep when it has no samples
SweepsOf(channel) ==
  IF channel.samples = 0 THEN <<>>
  ELSE <<SyncSweep(1, 0, channel.samples, channel.sample_rate[2])>>

\* sample_rate != ch_config.sample_rate, mutated: rates are never compared
RateDiffersNever(sample_rate, other) == FALSE

\* sample_rate != ch_config.sample_rate
RateDiffers(sample_rate, other) == sample_rate # other

\* the gather loop has gone through ch_names: used_channels is returned, and
\* the read returns at once when it is empty
Gathered(g, names) ==
  IF g.i <= Len(names) THEN g
  ELSE IF g.used = <<>> THEN [g EXCEPT !.pc = "done"]
       ELSE [g EXCEPT !.pc = "read"]

\* one iteration of the loop of __gather_usable_channels
GatherOne(c, names, g) ==
  LET r == ResolveChannel(c, names[g.i])
  IN  IF r.pc = "raise"
      THEN [g EXCEPT !.pc = "raise", !.exc = r.exc, !.msg = r.msg]
      ELSE
        LET ch_config == Lookup(c, r.id)
            used == IF ch_config.valid THEN Append(g.used, r.id) ELSE g.used
        IN  IF IsNone(g.sample_rate)
            THEN Gathered([g EXCEPT !.used = used, !.i = @ + 1,
                                    !.sample_rate = Some(ch_config.sample_rate)],
                          names)
            ELSE IF RateDiffers(Val(g.sample_rate), ch_config.sample_rate)
                 THEN [g EXCEPT !.used = used, !.pc = "raise",
                                !.exc = "RuntimeError",
                                !.msg = "same sample rate"]
                 ELSE Gathered([g EXCEPT !.used = used, !.i = @ + 1], names)

\* the flat value buffer of a channel: value p belongs to the channel, a
\* sample and a component of the sample
ChannelData(ch_config, out) ==
  LET flat == Flat(out, ch_config.max_sample_dimension)
  IN  [p \in 1..Len(flat) |-> <<Val(ch_config.id)>> \o flat[p]]

\* timestamps that are kept and never compared
ParseTimestampsFirst(g, timestamps) ==
  IF IsNone(g.result_timestamps) /\ g.timestamp_format # "NONE"
  THEN [g EXCEPT !.result_timestamps = Some(timestamps)]
  ELSE g

\* __parse_timestamps: the first channel's timestamps are kept when
\* timestamps are asked for, and every later channel's are compared with them
ParseTimestamps(g, timestamps) ==
  IF IsNone(g.result_timestamps)
  THEN IF g.timestamp_format # "NONE"
       THEN [g EXCEPT !.result_timestamps = Some(timestamps)]
       ELSE g
  ELSE IF g.timestamp_format # "NONE" /\ Val(g.result_timestamps) # timestamps
       THEN [g EXCEPT !.pc = "raise", !.exc = "RuntimeError",
                      !.msg = "different timestamps"]
       ELSE g

\* a result list that always takes the flat buffer as one row
UpdateResultListFlat(ch_config, data, result_list) == Append(result_list, data)

\* __update_result_list
UpdateResultList(ch_config, data, result_list) ==
  IF ch_config.max_sample_dimension = 1 THEN Append(result_list, data)
  ELSE result_list \o
         [i \in 1..ch_config.max_sample_dimension |->
            Stride(data, i - 1, ch_config.max_sample_dimension)]

\* rows of different lengths
Ragged(result_list) ==
  \E a, b \in 1..Len(result_list) : Len(result_list[a]) # Len(result_list[b])

\* np.array(result_list): a matrix of the rows; of rows of different lengths
\* the numpy releases the package allows make an array of row objects or
\* raise ValueError
NpArray(g) ==
  LET m == [g EXCEPT !.result = Some([ndim |-> 2, rows |-> g.result_list]),
                     !.ragged = Ragged(g.result_list)]
  IN  IF Ragged(g.result_list) /\ ~g.ragged
      THEN {m, [g EXCEPT !.pc = "raise", !.exc = "ValueError"]}
      ELSE {m}

\* data.reshape(-1, n)
Reshape(data, n) ==
  [i \in 1..(Len(data) \div n) |-> SubSeq(data, (i - 1) * n + 1, i * n)]

\* the frame of one channel in read_dataframe: a column is named after the
\* channel, <<name>>, or after the channel and a component, <<name, i>>
ChannelFrame(ch_config, timestamps, data, timestamp_format) ==
  LET n == ch_config.max_sample_dimension
      index == IF timestamp_format = "NONE" THEN None ELSE Some(timestamps)
  IN  IF n = 1
      THEN [columns |-> << <<ch_config.name>> >>, data |-> <<data>>,
            index |-> index]
      ELSE LET rows == Reshape(data, n)
           IN  [columns |-> [i \in 1..n |-> <<ch_config.name, i - 1>>],
                data |-> [i \in 1..n |-> [k \in 1..Len(rows) |-> rows[k][i]]],
                index |-> index]

\* the row labels of a frame: the index it was given, or 0, 1, ..
IndexOf(f) ==
  IF IsNone(f.index) THEN [k \in 1..Len(f.data[1]) |-> k - 1] ELSE Val(f.index)

RECURSIVE Sorted(_)
\* the numbers of a set in ascending order
Sorted(S) ==
  IF S = {} THEN <<>>
  ELSE LET m == CHOOSE x \in S : \A y \in S : x <= y
       IN  <<m>> \o Sorted(S \ {m})

\* the missing value of a frame
NaN == <<>>

\* pd.concat(data_frames, axis=1): the columns side by side, the rows
\* aligned on the union of the row labels
Concat(data_frames) ==
  LET labels == Sorted(UNION {{IndexOf(data_frames[k])[i] :
                                 i \in 1..Len(IndexOf(data_frames[k]))} :
                              k \in 1..Len(data_frames)})
      Aligned(f, column) ==
        [r \in 1..Len(labels) |->
           IF \E i \in 1..Len(IndexOf(f)) : IndexOf(f)[i] = labels[r]
           THEN column[CHOOSE i \in 1..Len(IndexOf(f)) : IndexOf(f)[i] = labels[r]]
           ELSE NaN]
      RECURSIVE Side(_)
      Side(k) ==
        IF k > Len(data_frames) THEN [columns |-> <<>>, data |-> <<>>]
        ELSE LET f == data_frames[k]
                 rest == Side(k + 1)
             IN  [columns |-> f.columns \o rest.columns,
                  data |-> [i \in 1..Len(f.data) |-> Aligned(f, f.data[i])]
                             \o rest.data]
  IN  [columns |-> Side(1).columns, data |-> Side(1).data,
       index |-> IF \A k \in 1..Len(data_frames) : IsNone(data_frames[k].index)
                 THEN None ELSE Some(labels)]

\* __get_data_abs_timestamp_array: the start time as a naive datetime64, to
\* which np.timedelta64(1, "s") * timestamps adds whole seconds
AbsTimestampArray(d, timestamps, utc) ==
  LET start_time == IF utc THEN d.measurement_start_time_utc
                    ELSE d.measurement_start_time_local
      shifted == [wall |-> start_time.wall + start_time.offset,
                  offset |-> start_time.offset]
      start_time_np == shifted.wall - shifted.offset
  IN  [i \in 1..Len(timestamps) |->
         start_time_np + TruncDiv(timestamps[i], TicksPerSecond) * TicksPerSecond]

\* the end of read_dataframe: the frames side by side, the row labels made
\* absolute on request
FrameReturn(d, g) ==
  LET full_frame == Concat(g.data_frames)
      utc == g.timestamp_format = "ABSOLUTE_UTC_TIME"
  IN  [g EXCEPT !.pc = "done",
                !.result = Some(
                  IF g.timestamp_format \in {"ABSOLUTE_LOCAL_TIME",
                                             "ABSOLUTE_UTC_TIME"}
                  THEN [full_frame EXCEPT
                          !.index = Some(AbsTimestampPandas(d, IndexOf(full_frame), utc))]
                  ELSE full_frame)]

\* a return that never takes the only row out of its matrix
ArrayReturnMatrix(d, g) == [g EXCEPT !.pc = "done"]

\* the end of read_array and read_array_by_index: __parse_utc_timestamps,
\* and a result of one row is returned as that row
ArrayReturn(d, g) ==
  LET utc == g.timestamp_format = "ABSOLUTE_UTC_TIME"
      result_timestamps ==
        IF g.timestamp_format \in {"ABSOLUTE_LOCAL_TIME", "ABSOLUTE_UTC_TIME"}
        THEN Some(AbsTimestampArray(d, Val(g.result_timestamps), utc))
        ELSE g.result_timestamps
      result == Val(g.result)
  IN  [g EXCEPT !.pc = "done", !.result_timestamps = result_timestamps,
                !.result = IF Len(result.rows) = 1
                           THEN Some([ndim |-> 1, rows |-> result.rows])
                           ELSE @]

\* one iteration of the loop over used_channels: the channel is read with
\* the default range; read_dataframe makes the channel's frame,
\* read_array and read_array_by_index compare its timestamps with those of
\* the channels read before and add its rows to the result.  After the last
\* channel the read returns.
ReadOneOf(d, g, ch_config, sweeps, r) ==
  LET timestamps == Timestamps(sweeps, r.out)
      data == ChannelData(ch_config, r.out)
      fetched == IF r.fetched = {} THEN g.fetched
                 ELSE g.fetched \cup {ch_config.id}
      g1 == [g EXCEPT !.fetched = fetched]
      last == g.j = Len(g.used)
  IN  IF r.pc # "done"
      THEN {[g1 EXCEPT !.pc = "raise", !.exc = r.exc]}
      ELSE IF g.op = "read_dataframe"
           THEN IF ch_config.max_sample_dimension # 1 /\ r.fetched = {}
                THEN {[g1 EXCEPT !.pc = "raise", !.exc = "AttributeError"]}
                ELSE LET g2 == [g1 EXCEPT
                                  !.j = @ + 1,
                                  !.data_frames =
                                    Append(@, ChannelFrame(ch_config, timestamps, data,
                                                           g.timestamp_format))]
                     IN  {IF last THEN FrameReturn(d, g2) ELSE g2}
           ELSE LET g2 == ParseTimestamps(g1, timestamps)
                IN  IF g2.pc = "raise" THEN {g2}
                    ELSE {IF last /\ a.pc # "raise" THEN ArrayReturn(d, a) ELSE a :
                            a \in NpArray([g2 EXCEPT
                                             !.j = @ + 1,
                                             !.result_list =
                                               UpdateResultList(ch_config, data, @)])}

\* the read of the next of used_channels: __get_all_sweeps run to its end,
\* then the rest of the iteration
ReadOne(d, c, g) ==
  LET ch_config == Lookup(c, g.used[g.j])
      sweeps == SweepsOf(ch_config)
  IN  UNION {ReadOneOf(d, g, ch_config, sweeps, r) :
               r \in {Run(sweeps, Call(sweeps, UnboundedRequest), Fuel(sweeps))}}

\* the catalogs of the multi-channel reads: channel k has the handle k
RatedCatalogs ==
  UNION {{c \in [1..n -> {Channel(Some(id), name, period, valid) :
                            id \in 1..MaxChannels, name \in ChannelNameSet,
                            period \in Periods, valid \in BOOLEAN}] :
            \A k \in 1..n : c[k].id = Some(k)}
           : n \in 1..MaxChannels}

\* the ch_names of a multi-channel read
NameLists ==
  UNION {[1..n -> {StrRef("a"), OtherRef}
                    \cup {IntRef(id) : id \in 1..(MaxChannels + 1)}]
           : n \in 0..MaxNames}

MultiReads == {"read_dataframe", "read_array", "read_array_by_index"}

InitGather ==
  /\ cat \in RatedCatalogs
  /\ ch_names \in NameLists
  /\ gth = NewGather
  /\ channel_id = OtherRef /\ ret = NoReturn
  /\ ch = <<>> /\ req = UnboundedRequest /\ rd = NewRead
  /\ dmd = NoRecording /\ frame = None /\ life = NewLife

\* read_dataframe, read_array or read_array_by_index is called
MultiCall ==
  /\ gth.pc = "call"
  /\ \E op \in MultiReads :
       gth' = Gathered([gth EXCEPT !.op = op, !.pc = "gather",
                                   !.timestamp_format =
                                     IF "timestamp_format" \in DOMAIN req
                                     THEN req.timestamp_format ELSE @],
                       ch_names)
  /\ UNCHANGED <<engineVars, tableVars, cat, channel_id, ret, ch_names>>

\* __gather_usable_channels takes the next of ch_names
GatherStep ==
  /\ gth.pc = "gather"
  /\ gth' = GatherOne(cat, ch_names, gth)
  /\ UNCHANGED <<engineVars, tableVars, cat, channel_id, ret, ch_names>>

\* the next of used_channels is read
ReadStep ==
  /\ gth.pc = "read"
  /\ gth' \in ReadOne(dmd, cat, gth)
  /\ UNCHANGED <<engineVars, tableVars, cat, channel_id, ret, ch_names>>

NextGather == MultiCall \/ GatherStep \/ ReadStep

SpecGather == InitGather /\ [][NextGather]_vars

\* the catalogs of the reads that return arrays and tables: channel k has
\* the handle k and the k-th name, and all channels have one sample rate
ArrayCatalogs ==
  {c \in [1..MaxChannels ->
            {ChannelWith(Some(id), NameOrder[id], 1, valid, dim, samples) :
               id \in 1..MaxChannels, valid \in BOOLEAN, dim \in {1, 2},
               samples \in {0, 2}}] :
     \A k \in 1..MaxChannels : c[k].id = Some(k)}

\* the ch_names of these reads: channels of the catalog, each at most once
ArrayNameLists ==
  UNION {{l \in [1..n -> {IntRef(id) : id \in 1..MaxChannels}] :
            \A a, b \in 1..n : a # b => l[a] # l[b]}
           : n \in 0..MaxNames}

\* the recordings of these reads: the local start time is the UTC start time
\* in a zone o ticks ahead
ArrayRecordings ==
  {[NoRecording EXCEPT !.measurement_start_time_local = [wall |-> o, offset |-> o]] :
     o \in {0, 1}}

\* the calls of these reads
ArrayRequests ==
  {[kind |-> "raw", start_time |-> 0, end_time |-> None, max_samples |-> None,
    timestamp_format |-> f] : f \in TimestampFormats}

InitArray ==
  /\ cat \in ArrayCatalogs
  /\ ch_names \in ArrayNameLists
  /\ req \in ArrayRequests
  /\ dmd \in ArrayRecordings
  /\ gth = NewGather
  /\ channel_id = OtherRef /\ ret = NoReturn
  /\ ch = <<>> /\ rd = NewRead /\ frame = None /\ life = NewLife

SpecArray == InitArray /\ [][NextGather]_vars

----------------------------------------------------------------------------
(* read_array_by_index on one channel: __get_ranged_sweeps_by_index *)

\* __get_cumulative_max_samples: entry k is the number of samples of the
\* first k sweeps
CumulativeMaxSamples(c) ==
  [k \in 1..Len(c) |-> SeqSum([l \in 1..k |-> SweepMaxSamples(c[l])])]

\* __get_correct_end_sample, for an end_sample that is given
CorrectEndSample(cumulative_max_samples, end_sample) ==
  IF cumulative_max_samples # <<>>
     /\ end_sample > cumulative_max_samples[Len(cumulative_max_samples)]
  THEN cumulative_max_samples[Len(cumulative_max_samples)]
  ELSE end_sample

\* the dispatch of read_array_by_index on the requested range, and
\* __get_ranged_sweeps_by_index up to its loop: int(end_sample) of None is a
\* TypeError
IndexCall(c, q) ==
  IF q.start_sample = 0 /\ IsNone(q.end_sample)
  THEN [NewRead EXCEPT !.op = "all", !.pc = "for"]
  ELSE IF IsNone(q.end_sample)
  THEN Raise([NewRead EXCEPT !.op = "by_index"], "TypeError")
  ELSE LET end_sample == CorrectEndSample(CumulativeMaxSamples(c), Val(q.end_sample))
       IN  [start_sample |-> q.start_sample, end_sample |-> end_sample,
            samples_to_read |-> end_sample - q.start_sample, read_samples |-> 0]
           @@ [NewRead EXCEPT !.op = "by_index", !.pc = "for"]

\* one iteration of the loop of __get_ranged_sweeps_by_index over the
\* sweeps.  Both branches call __get_single_sweep with three of its five
\* positional parameters, without the two buffers: a TypeError.
IndexFor(c, r) ==
  IF r.si > Len(c) THEN Return(r)
  ELSE
    LET sweep == c[r.si]
        cumulative_max_samples == CumulativeMaxSamples(c)
        sweep_start_sample_offset ==
          r.start_sample - (cumulative_max_samples[r.si] - SweepMaxSamples(sweep))
        first_sample == sweep_start_sample_offset + sweep.first_sample
    IN  IF /\ sweep.first_sample <= first_sample
           /\ first_sample <= sweep.last_sample
           /\ r.start_sample < r.end_sample
        THEN IF ~IsAsync(sweep)
             THEN Raise(r, "TypeError")
             ELSE LET left_samples == r.samples_to_read - r.read_samples
                  IN  IF sweep.first_sample <= sweep.last_sample /\ left_samples > 0
                      THEN Raise(r, "TypeError")
                      ELSE [r EXCEPT !.si = @ + 1,
                                     !.start_sample =
                                       IF sweep.first_sample >= sweep.last_sample
                                       THEN cumulative_max_samples[r.si] + 1
                                       ELSE @]
        ELSE [r EXCEPT !.si = @ + 1]

\* the sample indices of the requests by index
Indices == 0..(2 * MaxSweepSamples)

\* the calls of read_array_by_index
IndexRequests ==
  {[kind |-> "index", start_sample |-> s, end_sample |-> e] :
     s \in Indices, e \in {None} \cup {Some(i) : i \in Indices}}

InitIndex ==
  /\ ch \in Channels
  /\ req \in IndexRequests
  /\ rd = NewRead
  /\ cat = <<>> /\ channel_id = OtherRef /\ ret = NoReturn
  /\ ch_names = <<>> /\ gth = NewGather
  /\ dmd = NoRecording /\ frame = None /\ life = NewLife

\* read_array_by_index is called for the channel
ReadByIndexCall ==
  /\ rd.pc = "call"
  /\ rd' = IndexCall(ch, req)
  /\ UNCHANGED <<ch, req, catalogVars, tableVars>>

\* __get_ranged_sweeps_by_index takes the next sweep
IndexSweepsStep ==
  /\ Running(rd) /\ rd.op = "by_index"
  /\ rd' = IndexFor(ch, rd)
  /\ UNCHANGED <<ch, req, catalogVars, tableVars>>

NextIndex == ReadByIndexCall \/ AllSweepsStep \/ IndexSweepsStep

SpecIndex == InitIndex /\ [][NextIndex]_vars

----------------------------------------------------------------------------
(* The reader's file handle: construction, with-scope, close, and the     *)
(* native wrappers' error check                                            *)

INVALID_FILE_HANDLE == -5005

INVALID_CHANNEL_HANDLE == -5006

\* the values of the enumeration ErrorCode
ErrorCodeValues == {0, -8000} \cup {-c : c \in 5001..5014}

\* _check_error in the wrapper location: ErrorCode(error_code) of a value
\* that is no member of the enumeration is a ValueError
CheckError(location, error_code) ==
  IF error_code \notin ErrorCodeValues
  THEN [location |-> location, code |-> error_code, pc |-> "raise",
        exc |-> "ValueError", msg |-> <<>>]
  ELSE IF error_code # 0
  THEN [location |-> location, code |-> error_code, pc |-> "raise",
        exc |-> "RuntimeError", msg |-> <<location, error_code>>]
  ELSE [location |-> location, code |-> error_code, pc |-> "done",
        exc |-> "", msg |-> <<>>]

\* the codes the native library answers a call on an open handle with: no
\* error, a member of ErrorCode, and a value that is no member
ReplyCodes == {0, INVALID_FILE_HANDLE, 1}

\* the native library's answer to a call on a handle: a released handle is
\* answered with the invalid-handle code of its kind
Reply(l, code, invalid) == IF l.handle = "released" THEN invalid ELSE code

\* an operation of the reader has ended with the wrapper outcome r
Ended(l, op, r) ==
  [l EXCEPT !.op = op, !.pc = r.pc, !.exc = r.exc, !.check = Some(r)]

\* an operation of the reader has ended without a native call
EndedLocally(l, op, pc, exc) ==
  [l EXCEPT !.op = op, !.pc = pc, !.exc = exc, !.check = None]

\* DmdReader.__init__: open_file, then the start times and the channel
\* catalog are read through further wrappers (code2 is the first non-zero
\* code among them, or 0); an exception leaves no reader behind
ConstructOf(l, code, code2) ==
  LET r == CheckError("open_file", code)
      r2 == CheckError("get_measurement_start_time", code2)
  IN  IF r.pc = "raise"
      THEN [Ended(l, "init", r) EXCEPT !.scope = "failed"]
      ELSE IF r2.pc = "raise"
      THEN [Ended(l, "init", r2) EXCEPT !.scope = "failed", !.handle = "open"]
      ELSE [Ended(l, "init", r2) EXCEPT !.scope = "constructed", !.handle = "open"]

\* close(): _api.close_file(self.__file_handle), whatever has been done to
\* the handle before
CloseOf(l, op, code) ==
  LET r == CheckError("close_file", Reply(l, code, INVALID_FILE_HANDLE))
  IN  [Ended(l, op, r) EXCEPT
         !.closes = @ + 1,
         !.handle = IF r.pc = "done" THEN "released" ELSE @]

RECURSIVE GatherAll(_, _, _)
\* __gather_usable_channels run to its end
GatherAll(c, names, g) ==
  IF g.pc # "gather" THEN g ELSE GatherAll(c, names, GatherOne(c, names, g))

\* a read operation of the reader, as far as the handle is concerned: the
\* operation ends where its first native call fails, and ends of its own if
\* it issues none.  stop says whether the recording has a manual stop marker.
ReadOf(l, op, c, names, d, reduced_sweeps, code, stop) ==
  IF op = "headers"
  THEN Ended(l, op, CheckError("get_num_header_fields",
                               Reply(l, code, INVALID_FILE_HANDLE)))
  ELSE IF op \in {"markers", "measurement_duration"}
  THEN LET r == CheckError("get_num_markers", Reply(l, code, INVALID_FILE_HANDLE))
       IN  IF op = "measurement_duration" /\ r.pc = "done" /\ ~stop
           THEN [Ended(l, op, r) EXCEPT !.pc = "raise", !.exc = "RuntimeError"]
           ELSE Ended(l, op, r)
  ELSE IF op = "read_reduced"
  THEN IF d.reduced_sample_type = "INVALID" THEN EndedLocally(l, op, "done", "")
       ELSE IF d.reduced_sample_type # "REDUCED"
       THEN EndedLocally(l, op, "raise", "NotImplementedError")
       ELSE IF reduced_sweeps = <<>> THEN EndedLocally(l, op, "done", "")
       ELSE Ended(l, op, CheckError("get_samples_and_ts_reduced_value_seconds",
                                    Reply(l, code, INVALID_CHANNEL_HANDLE)))
  ELSE LET g == GatherAll(c, names,
                          Gathered([NewGather EXCEPT !.op = op, !.pc = "gather"],
                                   names))
       IN  IF g.pc = "raise" THEN EndedLocally(l, op, "raise", g.exc)
           ELSE IF \A k \in 1..Len(g.used) : SweepsOf(Lookup(c, g.used[k])) = <<>>
           THEN EndedLocally(l, op, "done", "")
           ELSE Ended(l, op, CheckError("get_samples_and_ts_scaled_value_seconds",
                                        Reply(l, code, INVALID_CHANNEL_HANDLE)))

ReadOps ==
  {"read_dataframe", "read_array", "read_array_by_index", "read_reduced",
   "headers", "markers", "measurement_duration"}

\* the catalogs, requests and channels the closed reader is read on
LifeCatalogs ==
  {<<ChannelWith(Some(1), "a", 1, valid, 1, samples)>> :
     valid \in BOOLEAN, samples \in {0, 2}}

LifeNameLists == {<<>>, <<IntRef(1)>>, <<StrRef("b")>>}

LifeConfigs ==
  {[NoRecording EXCEPT !.reduced_sample_type = t] :
     t \in {"INVALID", "REDUCED", "DOUBLE"}}

InitLife ==
  /\ cat \in LifeCatalogs
  /\ ch_names \in LifeNameLists
  /\ dmd \in LifeConfigs
  /\ ch \in {<<>>, <<SyncSweep(1, 0, 2, 1)>>}
  /\ life = NewLife
  /\ req = UnboundedRequest /\ rd = NewRead /\ frame = None
  /\ channel_id = OtherRef /\ ret = NoReturn /\ gth = NewGather

\* DmdReader(file_name)
Construct ==
  /\ life.scope = "none"
  /\ \E code, code2 \in ReplyCodes : life' = ConstructOf(life, code, code2)
  /\ UNCHANGED <<engineVars, catalogVars, dmd, frame>>

\* __enter__: the with-scope is entered
Enter ==
  /\ life.scope = "constructed"
  /\ life' = [life EXCEPT !.scope = "entered", !.op = "enter", !.pc = "done",
                          !.exc = "", !.check = None]
  /\ UNCHANGED <<engineVars, catalogVars, dmd, frame>>

\* __exit__: the with-scope is left, normally or by an exception (the
\* arguments that tell the two apart are not looked at), and close() is called
Exit ==
  /\ life.scope = "entered"
  /\ \E code \in ReplyCodes :
       life' = [CloseOf(life, "exit", code) EXCEPT !.scope = "left"]
  /\ UNCHANGED <<engineVars, catalogVars, dmd, frame>>

\* close() is called on the reader
Close ==
  /\ life.scope \in {"constructed", "entered", "left"}
  /\ life.calls < MaxCloses
  /\ \E code \in ReplyCodes :
       life' = [CloseOf(life, "close", code) EXCEPT !.calls = @ + 1]
  /\ UNCHANGED <<engineVars, catalogVars, dmd, frame>>

\* a read operation is called on the reader
ReadOp ==
  /\ life.scope \in {"constructed", "entered", "left"}
  /\ \E op \in ReadOps, code \in ReplyCodes, stop \in BOOLEAN :
       life' = ReadOf(life, op, cat, ch_names, dmd, ch, code, stop)
  /\ UNCHANGED <<engineVars, catalogVars, dmd, frame>>

NextLife == Construct \/ Enter \/ Exit \/ Close \/ ReadOp

SpecLife == InitLife /\ [][NextLife]_vars

----------------------------------------------------------------------------
(* __get_corrected_sample_count on its own *)

\* the sweeps the corrector is applied to: synchronous ones, of which some
\* start between two sample times of their period, and asynchronous ones
CorrectorSweeps ==
  {SyncSweep(first, start, n, p) :
     first \in {1, 3}, start \in 0..2, n \in SampleCounts, p \in Periods}
  \cup {AsyncSweep(first, start, [i \in 1..(n - 1) |-> 1]) :
          first \in {1, 3}, start \in 0..2, n \in SampleCounts}

\* the sample ranges the corrector is applied to
CorrectorRanges ==
  {[kind |-> "samples", start_sample |-> s, end_sample |-> e] :
     s \in (-1)..MaxTime, e \in {None} \cup {Some(i) : i \in (-1)..MaxTime}}

InitCorrector ==
  /\ ch \in {<<sw>> : sw \in CorrectorSweeps}
  /\ req \in CorrectorRanges
  /\ rd = NewRead /\ frame = None /\ life = NewLife
  /\ cat = <<>> /\ channel_id = OtherRef /\ ret = NoReturn
  /\ ch_names = <<>> /\ gth = NewGather /\ dmd = NoRecording

\* __get_corrected_sample_count(sweep, start_sample, end_sample) is called
\* and returns
CorrectorCall ==
  /\ rd.pc = "call"
  /\ rd' = Return([NewRead EXCEPT !.op = "corrector"])
  /\ frame' = Some(GetCorrectedSampleCount(ch[1], req.start_sample, req.end_sample))
  /\ UNCHANGED <<ch, req, dmd, life, catalogVars>>

NextCorrector == CorrectorCall

SpecCorrector == InitCorrector /\ [][NextCorrector]_vars

----------------------------------------------------------------------------
(* C1 *)

\* C1: an unbounded read without a cap returns, in order, exactly the samples
\* first_sample..last_sample of every sweep: nothing duplicated or missing at
\* a block or sweep boundary, and no exception on the way.
C1_UnboundedReadIsAllSweeps ==
  (Unbounded(req) /\ IsNone(req.max_samples) /\ rd.pc # "call") =>
     /\ rd.op = "all"
     /\ rd.pc \in {"for", "while", "done"}
     /\ rd.pc = "done" => rd.out = AllSamples(ch)

\* an unbounded read of two sweeps of several blocks each has returned
C1_Witness ==
  /\ Unbounded(req) /\ IsNone(req.max_samples) /\ rd.pc = "done"
  /\ Len(ch) = 2
  /\ \A k \in 1..2 : SweepMaxSamples(ch[k]) > BlockSize
  /\ ch[2].first_sample = ch[1].last_sample + 1
  /\ Len(rd.out) = SweepMaxSamples(ch[1]) + SweepMaxSamples(ch[2])

----------------------------------------------------------------------------
(* C2 *)

\* C2: every sample a ranged read with start_time <= end_time returns has a
\* timestamp t with start_time <= t <= end_time.
C2_RangedSamplesWithinInterval ==
  (Ranged(req) /\ ~IsNone(req.end_time) /\ req.start_time <= Val(req.end_time)) =>
     \A i \in 1..Len(rd.out) :
        /\ req.start_time <= TsOf(ch, rd.out[i])
        /\ TsOf(ch, rd.out[i]) <= Val(req.end_time)

----------------------------------------------------------------------------
(* C3 *)

\* the sample with native index i lies in an asynchronous sweep
InAsyncSweep(c, i) == \E k \in Holders(c, i) : IsAsync(c[k])

\* C3: no sample of an asynchronous sweep with a timestamp strictly greater
\* than the requested end_time (the last sweep's end_time when none is given)
\* is in the result of a ranged read, at any point of the read.
C3_AsyncNothingPastEnd ==
  rd.op = "ranged" =>
     \A i \in 1..Len(rd.out) :
        InAsyncSweep(ch, rd.out[i]) => TsOf(ch, rd.out[i]) <= rd.actual_end_time

\* a ranged read of an asynchronous channel has returned after dropping the
\* tail of a fetched block that lay past end_time
C3_Witness ==
  /\ rd.op = "ranged" /\ rd.pc = "done"
  /\ \A k \in 1..Len(ch) : IsAsync(ch[k])
  /\ ~IsNone(req.end_time)
  /\ rd.dropped > 0
  /\ Len(rd.out) > 1
  /\ TsOf(ch, rd.out[Len(rd.out)]) = Val(req.end_time)

----------------------------------------------------------------------------
(* C4 *)

\* C4: a ranged read fetches from a sweep if and only if the sweep's
\* [start_time, end_time] overlaps the requested interval, and a sweep
\* outside the interval contributes no sample.
C4_FetchIffOverlap ==
  (Ranged(req) /\ IsNone(req.max_samples) /\ rd.pc = "done") =>
     \A k \in 1..Len(ch) :
        /\ k \in rd.fetched <=> Overlaps(ch[k], req.start_time, rd.actual_end_time)
        /\ ~Overlaps(ch[k], req.start_time, rd.actual_end_time) =>
              \A i \in 1..Len(rd.out) : k \notin Holders(ch, rd.out[i])

----------------------------------------------------------------------------
(* C5 *)

\* a synchronous channel, or an asynchronous one
Synchronous(c) == \A k \in 1..Len(c) : ~IsAsync(c[k])

Asynchronous(c) == \A k \in 1..Len(c) : IsAsync(c[k])

\* the requested interval covers every sweep of the channel
Covering(c, q) ==
  /\ Ranged(q) /\ IsNone(q.max_samples) /\ Len(c) > 0
  /\ q.start_time <= c[1].start_time
  /\ IsNone(q.end_time) \/ Val(q.end_time) >= c[Len(c)].end_time

\* C5: a ranged read whose interval covers every sweep of a synchronous or
\* of an asynchronous channel returns what the unbounded read of the channel
\* returns.
C5_CoveringRangeIsUnboundedRead ==
  (Covering(ch, req) /\ (Synchronous(ch) \/ Asynchronous(ch)) /\ Finished(rd)) =>
     /\ rd.pc = "done"
     /\ rd.out = Uncapped(ch, UnboundedRequest).out

----------------------------------------------------------------------------
(* C6 *)

\* C6: with max_samples = k >= 1 the budget is what is left of k after the
\* samples returned so far, no fetch is issued on a budget of 0, and where
\* the same call without a cap returns, the capped call returns the first
\* min(k, uncapped length) samples of that result.
C6_CapReturnsPrefix ==
  (~IsNone(req.max_samples) /\ rd.pc # "call") =>
     /\ rd.max_samples = Some(Val(req.max_samples) - Len(rd.out))
     /\ ~IsNone(rd.fetch) => Val(Val(rd.fetch).budget) >= 1
     /\ LET u == Uncapped(ch, req)
        IN  (u.pc = "done" /\ ~u.ub) =>
               /\ rd.pc \in {"for", "while", "done"}
               /\ rd.pc = "done" => rd.out = Take(u.out, Val(req.max_samples))

\* a capped read has stopped inside a sweep, short of what the call returns
\* without the cap
C6_Witness ==
  /\ ~IsNone(req.max_samples) /\ rd.pc = "done"
  /\ Len(rd.out) = Val(req.max_samples)
  /\ Len(Uncapped(ch, req).out) > Len(rd.out) + 1
  /\ Uncapped(ch, req).pc = "done"

----------------------------------------------------------------------------
(* C7 *)

\* the positions of the channels named name
Named(c, name) == {k \in 1..Len(c) : c[k].name = name}

----------------------------------------------------------------------------
(* C8 *)

\* C8: resolving an int id returns that id when the catalog holds it and
\* raises the "not found" KeyError when it does not; a reference that is
\* neither a str nor an int raises TypeError.
C8_ResolveById ==
  (channel_id.type # "str" /\ ~IsNone(ret.resolve)) =>
    LET r == Val(ret.resolve)
    IN  /\ (channel_id.type = "int" /\ Some(channel_id.id) \in Keys(cat)) =>
             r.pc = "done" /\ r.id = Some(channel_id.id)
        /\ (channel_id.type = "int" /\ Some(channel_id.id) \notin Keys(cat)) =>
             r.pc = "raise" /\ r.exc = "KeyError" /\ r.msg = "not found"
        /\ channel_id.type # "int" => r.pc = "raise" /\ r.exc = "TypeError"

\* an id was resolved whose channel shares its name with another channel
C8_Witness ==
  /\ channel_id.type = "int" /\ ~IsNone(ret.resolve)
  /\ Val(ret.resolve).pc = "done"
  /\ \E k, l \in 1..Len(cat) :
       /\ k # l /\ cat[k].name = cat[l].name
       /\ cat[k].id = Val(ret.resolve).id

----------------------------------------------------------------------------
(* C9 *)

\* two channels of the catalog share a name
DuplicateNames(c) ==
  \E k, l \in 1..Len(c) : k # l /\ c[k].name = c[l].name

\* C9: `channels` raises KeyError exactly when two channels share a name and
\* otherwise holds every channel under its name; `allchannels` holds every
\* channel under its id; channel_names and channel_ids have the same length.
C9_NameViewFailsIffDuplicates ==
  /\ ~IsNone(ret.channels) =>
       LET v == Val(ret.channels)
       IN  /\ (v.pc = "raise" /\ v.exc = "KeyError") <=> DuplicateNames(cat)
           /\ v.pc = "done" =>
                /\ Len(v.view) = Len(cat)
                /\ \A k \in 1..Len(cat) :
                     \A m \in Named(v.view, cat[k].name) : v.view[m] = cat[k]
                /\ \A k \in 1..Len(cat) : Named(v.view, cat[k].name) # {}
  /\ ~IsNone(ret.allchannels) =>
       LET a == Val(ret.allchannels)
       IN  /\ Len(a) = Len(cat)
           /\ \A k \in 1..Len(cat) : Lookup(a, cat[k].id) = cat[k]
  /\ (~IsNone(ret.channel_names) /\ ~IsNone(ret.channel_ids)) =>
       /\ Len(Val(ret.channel_names)) = Len(Val(ret.channel_ids))
       /\ Len(Val(ret.channel_ids)) = Len(cat)

\* every view of a catalog with a duplicated name has been read
C9_Witness ==
  /\ DuplicateNames(cat)
  /\ ~IsNone(ret.channels) /\ Val(ret.channels).pc = "raise"
  /\ ~IsNone(ret.allchannels) /\ Len(Val(ret.allchannels)) = 2
  /\ ~IsNone(ret.channel_names) /\ ~IsNone(ret.channel_ids)

----------------------------------------------------------------------------
(* C10 *)

\* every reference of names resolves to a channel
AllResolve(c, names) ==
  \A k \in 1..Len(names) : ResolveChannel(c, names[k]).pc = "done"

\* the sample rates of the channels the references resolve to
RatesOf(c, names) ==
  {Lookup(c, ResolveChannel(c, names[k]).id).sample_rate :
     k \in {l \in 1..Len(names) : ResolveChannel(c, names[l]).pc = "done"}}

\* two of the requested channels have different sample rates
MixedRates(c, names) ==
  AllResolve(c, names) /\ Cardinality(RatesOf(c, names)) >= 2

\* C10: a multi-channel read of channels with different sample rates raises
\* the "same sample rate" RuntimeError, and no sample has been fetched from
\* any channel when it is raised.
C10_MixedRatesConflictBeforeFetch ==
  /\ (MixedRates(cat, ch_names) /\ gth.pc \notin {"call", "gather"}) =>
       /\ gth.pc = "raise" /\ gth.exc = "RuntimeError"
       /\ gth.msg = "same sample rate"
  /\ MixedRates(cat, ch_names) => gth.fetched = {}
  /\ (gth.pc = "raise" /\ gth.msg = "same sample rate") => gth.fetched = {}

\* the conflict was raised for two channels of different rates, the first of
\* which could have been read
C10_Witness ==
  /\ MixedRates(cat, ch_names) /\ Len(ch_names) = 2
  /\ gth.pc = "raise" /\ gth.msg = "same sample rate"
  /\ gth.used # <<>> /\ gth.op = "read_array"

----------------------------------------------------------------------------
(* C11 *)

\* the requested channels of a valid raw sample type
ValidRequested(c, names) ==
  {Lookup(c, ResolveChannel(c, names[k]).id) :
     k \in {l \in 1..Len(names) :
              /\ ResolveChannel(c, names[l]).pc = "done"
              /\ Lookup(c, ResolveChannel(c, names[l]).id).valid}}

\* C11: once every reference has resolved, the "same sample rate"
\* RuntimeError is raised if and only if two requested channels of a valid
\* raw sample type have different sample rates.
C11_ConflictIffValidRatesDiffer ==
  (AllResolve(cat, ch_names) /\ gth.pc \notin {"call", "gather"}) =>
     ((gth.pc = "raise" /\ gth.msg = "same sample rate")
        <=> \E a, b \in ValidRequested(cat, ch_names) :
               a.sample_rate # b.sample_rate)

----------------------------------------------------------------------------
(* C12 *)

\* every reference resolves, and to a channel of invalid raw sample type
AllInvalid(c, names) ==
  AllResolve(c, names) /\ ValidRequested(c, names) = {}

\* C12: a channel of invalid raw sample type is never in used_channels and
\* no sample is ever fetched from it, and a read whose requested channels
\* are all invalid returns the empty result without a fetch.
C12_InvalidNeverUsedNorFetched ==
  /\ \A k \in 1..Len(gth.used) : Lookup(cat, gth.used[k]).valid
  /\ \A id \in gth.fetched : Lookup(cat, id).valid
  /\ (AllInvalid(cat, ch_names) /\ gth.pc \notin {"call", "gather"}) =>
        gth.pc = "done" /\ gth.used = <<>> /\ gth.fetched = {}

----------------------------------------------------------------------------
(* C13 *)

\* no sweep of the channel overlaps the requested interval, whose end is the
\* last sweep's end_time when none is given
NoSweepInRange(c, q) ==
  \A k \in 1..Len(c) :
     ~Overlaps(c[k], q.start_time,
               IF IsNone(q.end_time) THEN c[Len(c)].end_time ELSE Val(q.end_time))

\* C13: a ranged read for which no sweep overlaps the requested interval,
\* the channel without sweeps included, raises nothing and returns an empty
\* series.
C13_NothingInRangeReturnsEmpty ==
  (Ranged(req) /\ NoSweepInRange(ch, req) /\ rd.pc # "call") =>
     /\ rd.pc \in {"for", "done"}
     /\ rd.out = <<>>
     /\ rd.fetched = {}

----------------------------------------------------------------------------
(* C14 *)

\* an empty table with the columns MIN, MAX, AVG, RMS
EmptyReducedTable(f) ==
  /\ f.columns = <<"MIN", "MAX", "AVG", "RMS">>
  /\ Len(f.data) = 4
  /\ \A j \in 1..4 : f.data[j] = <<>>

\* C14 as claimed: read_reduced on a channel without reduced sweeps raises
\* nothing and returns an empty table with the columns MIN, MAX, AVG, RMS,
\* whatever the reduced sample type and the timestamp_format.
C14_NoReducedSweepsFourColumns ==
  (ch = <<>> /\ rd.pc # "call") =>
     /\ rd.pc \in {"for", "done"}
     /\ rd.pc = "done" => (~IsNone(frame) /\ EmptyReducedTable(Val(frame)))

\* C14, amended: that holds when the reduced sample type is REDUCED; for
\* the type INVALID the table returned has no columns, and for every other
\* type NotImplementedError is raised.
C14_NoReducedSweepsByType ==
  (ch = <<>> /\ rd.pc # "call") =>
     /\ dmd.reduced_sample_type = "REDUCED" =>
          /\ rd.pc \in {"for", "done"}
          /\ rd.pc = "done" => (~IsNone(frame) /\ EmptyReducedTable(Val(frame)))
     /\ dmd.reduced_sample_type = "INVALID" =>
          rd.pc = "done" /\ frame = Some(EmptyFrame)
     /\ dmd.reduced_sample_type \notin {"REDUCED", "INVALID"} =>
          rd.pc = "raise" /\ rd.exc = "NotImplementedError" /\ IsNone(frame)

\* read_reduced with absolute timestamps has returned the empty four-column
\* table for a channel without reduced sweeps
C14_Witness ==
  /\ ch = <<>> /\ dmd.reduced_sample_type = "REDUCED"
  /\ req.timestamp_format = "ABSOLUTE_LOCAL_TIME"
  /\ rd.pc = "done" /\ ~IsNone(frame) /\ EmptyReducedTable(Val(frame))
  /\ Val(frame).index = Some(<<>>)

----------------------------------------------------------------------------
(* C15 *)

\* C15 as claimed: read_reduced raises NotImplementedError for every reduced
\* sample type other than REDUCED, and fetches reduced samples only for the
\* type REDUCED.
C15_NotImplementedUnlessReduced ==
  /\ (dmd.reduced_sample_type # "REDUCED" /\ rd.pc # "call") =>
        rd.pc = "raise" /\ rd.exc = "NotImplementedError"
  /\ rd.fetched # {} => dmd.reduced_sample_type = "REDUCED"

\* C15, amended: NotImplementedError is raised for every type other than
\* REDUCED and INVALID; the type INVALID gives an empty table without
\* columns; reduced samples are fetched only for the type REDUCED.
C15_NotImplementedUnlessReducedOrInvalid ==
  /\ (dmd.reduced_sample_type \notin {"REDUCED", "INVALID"} /\ rd.pc # "call") =>
        rd.pc = "raise" /\ rd.exc = "NotImplementedError" /\ IsNone(frame)
  /\ (dmd.reduced_sample_type = "INVALID" /\ rd.pc # "call") =>
        rd.pc = "done" /\ frame = Some(EmptyFrame)
  /\ (dmd.reduced_sample_type = "REDUCED" /\ rd.pc # "call") =>
        rd.exc # "NotImplementedError"
  /\ rd.fetched # {} => dmd.reduced_sample_type = "REDUCED"

\* NotImplementedError was raised for a channel that has reduced sweeps
C15_Witness ==
  /\ dmd.reduced_sample_type = "DOUBLE_VECTOR" /\ Len(ch) = 2
  /\ rd.pc = "raise" /\ rd.exc = "NotImplementedError" /\ rd.fetched = {}

----------------------------------------------------------------------------
(* C16 *)

\* the channels the references resolve to, in the order of the request
RequestedConfigs(c, names) ==
  [k \in 1..Len(names) |-> Lookup(c, ResolveChannel(c, names[k]).id)]

IsValid(ch_config) == ch_config.valid

\* the requested channels of a valid raw sample type, in the order of the
\* request
GatheredConfigs(c, names) == SelectSeq(RequestedConfigs(c, names), IsValid)

\* the series of a channel: series j holds component j of every sample, in
\* the order of the samples
SeriesOf(ch_config) ==
  LET samples == AllSamples(SweepsOf(ch_config))
  IN  [j \in 1..ch_config.max_sample_dimension |->
         [i \in 1..Len(samples) |-> <<Val(ch_config.id), samples[i], j - 1>>]]

RECURSIVE StackOf(_)
\* the series of several channels, channel after channel
StackOf(configs) ==
  IF configs = <<>> THEN <<>>
  ELSE SeriesOf(Head(configs)) \o StackOf(Tail(configs))

\* read_array has returned an array
ArrayReturned ==
  /\ gth.op = "read_array" /\ gth.pc = "done" /\ ~IsNone(gth.result)
  /\ AllResolve(cat, ch_names)

----------------------------------------------------------------------------
(* C17 *)

\* the timestamp series of a channel
TimesOf(ch_config) ==
  Timestamps(SweepsOf(ch_config), AllSamples(SweepsOf(ch_config)))

\* every gathered channel has the timestamp series of the first
SameTimes(configs) ==
  \A k \in 1..Len(configs) : TimesOf(configs[k]) = TimesOf(configs[1])

\* read_array has ended, with timestamps asked for and a channel gathered
TimedArrayEnded ==
  /\ gth.op = "read_array" /\ gth.pc \in {"done", "raise"}
  /\ gth.timestamp_format # "NONE"
  /\ AllResolve(cat, ch_names)
  /\ GatheredConfigs(cat, ch_names) # <<>>

\* C17: with timestamps asked for, read_array returns a result if and only
\* if every gathered channel has the timestamp series of the first, and
\* otherwise raises the "different timestamps" RuntimeError; the returned
\* series is the common one, which is returned as it is for
\* SECONDS_SINCE_START and sample by sample for the absolute formats.
C17_DifferentTimestampsConflict ==
  TimedArrayEnded =>
    LET gathered == GatheredConfigs(cat, ch_names)
    IN  IF SameTimes(gathered)
        THEN /\ gth.pc = "done"
             /\ ~IsNone(gth.result) /\ ~IsNone(gth.result_timestamps)
             /\ Len(Val(gth.result_timestamps)) = Len(TimesOf(gathered[1]))
             /\ gth.timestamp_format = "SECONDS_SINCE_START" =>
                  \A k \in 1..Len(gathered) :
                    Val(gth.result_timestamps) = TimesOf(gathered[k])
        ELSE /\ gth.pc = "raise" /\ gth.exc = "RuntimeError"
             /\ gth.msg = "different timestamps"
             /\ IsNone(gth.result) \/ Len(Val(gth.result).rows) < Len(StackOf(gathered))

\* read_array has raised for two channels of which one has two samples and
\* the other none
C17_Witness ==
  /\ TimedArrayEnded
  /\ gth.pc = "raise" /\ gth.msg = "different timestamps"
  /\ Len(gth.used) = 2
  /\ Lookup(cat, gth.used[1]).samples # Lookup(cat, gth.used[2]).samples

----------------------------------------------------------------------------
(* C18 *)

RECURSIVE ColumnsOf(_)
\* the column names of several channels: the name of a channel of dimension
\* 1, the names "name[0]".."name[N-1]" of a channel of dimension N > 1
ColumnsOf(configs) ==
  IF configs = <<>> THEN <<>>
  ELSE LET c == Head(configs)
       IN  (IF c.max_sample_dimension = 1 THEN << <<c.name>> >>
            ELSE [j \in 1..c.max_sample_dimension |-> <<c.name, j - 1>>])
           \o ColumnsOf(Tail(configs))

\* the number of series of several channels
DimensionsOf(configs) ==
  SeqSum([k \in 1..Len(configs) |-> configs[k].max_sample_dimension])

\* a multi-channel read of op has ended with a channel gathered
ReadEnded(op) ==
  /\ gth.op = op /\ gth.pc \in {"done", "raise"}
  /\ AllResolve(cat, ch_names)
  /\ GatheredConfigs(cat, ch_names) # <<>>

\* a channel of several components that has recorded no sample
EmptyVector(ch_config) ==
  ch_config.max_sample_dimension # 1 /\ ch_config.samples = 0

\* C18: read_dataframe returns a table with one column for a channel of
\* dimension 1, named after the channel, and N columns "name[0]".."name[N-1]"
\* for a channel of dimension N > 1, sum-of-dimensions columns in request
\* order; component j of sample i of a channel is in the channel's column j
\* at position i, and when the channels have the same timestamps so that
\* read_array returns, column j of the table is row j of the array.
C18_TableColumnsAreArrayRows ==
  LET gathered == GatheredConfigs(cat, ch_names)
  IN  /\ ReadEnded("read_dataframe") =>
           /\ gth.pc = "done"
           /\ Val(gth.result).columns = ColumnsOf(gathered)
           /\ Len(Val(gth.result).data) = DimensionsOf(gathered)
           /\ SameTimes(gathered) => Val(gth.result).data = StackOf(gathered)
      /\ (ReadEnded("read_array") /\ gth.pc = "done") =>
           Val(gth.result).rows = StackOf(gathered)

\* C18 for the reads that gather no channel of several components without
\* samples
C18_ExceptEmptyVectors ==
  LET gathered == GatheredConfigs(cat, ch_names)
  IN  (\A k \in 1..Len(gathered) : ~EmptyVector(gathered[k])) =>
        C18_TableColumnsAreArrayRows

----------------------------------------------------------------------------
(* C19 *)

\* the request gives an inclusive sample range that lies within the samples
\* of the channel; the caller-facing index of a sample is its position among
\* all samples of the channel, counted from 0
IndexRangeWithin(c, q) ==
  /\ q.kind = "index" /\ ~IsNone(q.end_sample)
  /\ q.start_sample <= Val(q.end_sample)
  /\ Val(q.end_sample) <= Len(AllSamples(c)) - 1

\* C19: a read by index with an inclusive range [start_sample, end_sample]
\* within the channel's samples returns exactly the samples of index
\* start_sample..end_sample, end_sample - start_sample + 1 of them, in order.
C19_IndexRangeReturnsItsSamples ==
  (IndexRangeWithin(ch, req) /\ Finished(rd)) =>
    /\ rd.pc = "done"
    /\ rd.out = SubSeq(AllSamples(ch), req.start_sample + 1, Val(req.end_sample) + 1)

\* no read by index of a range returns a sample
C19_RangeNeverReturnsSamples ==
  (req.kind = "index" /\ rd.op = "by_index") => rd.out = <<>>

----------------------------------------------------------------------------
(* C20 *)

Absolute(timestamp_format) ==
  timestamp_format \in {"ABSOLUTE_UTC_TIME", "ABSOLUTE_LOCAL_TIME"}

\* the UTC offset of the wall-clock times of a format: the recording's own
\* for ABSOLUTE_LOCAL_TIME, none for ABSOLUTE_UTC_TIME
ShiftOf(d, timestamp_format) ==
  IF timestamp_format = "ABSOLUTE_LOCAL_TIME"
  THEN d.measurement_start_time_local.offset ELSE 0

\* the wall-clock time of a sample rel ticks after the recording start
AbsoluteOf(d, timestamp_format, rel) ==
  d.measurement_start_time_utc.wall + rel + ShiftOf(d, timestamp_format)

\* the relative timestamps of the rows of a table of several channels
TableTimes(configs) ==
  Sorted(UNION {{TimesOf(configs[k])[i] : i \in 1..Len(TimesOf(configs[k]))} :
                  k \in 1..Len(configs)})

\* the table form: every row label is the recording start plus the sample's
\* relative time, in the zone of the format
C20_TableAbsoluteIsStartPlusRelative ==
  (ReadEnded("read_dataframe") /\ gth.pc = "done"
     /\ Absolute(gth.timestamp_format)) =>
    LET rel == TableTimes(GatheredConfigs(cat, ch_names))
        index == Val(Val(gth.result).index)
    IN  /\ Len(index) = Len(rel)
        /\ \A i \in 1..Len(rel) :
             /\ index[i].wall = AbsoluteOf(dmd, gth.timestamp_format, rel[i])
             /\ index[i].offset = ShiftOf(dmd, gth.timestamp_format)

\* the array form: every timestamp is the recording start plus the sample's
\* relative time, as a wall-clock time of the format
ArrayAbsoluteIsStartPlusRelative(rel) ==
  /\ Len(Val(gth.result_timestamps)) = Len(rel)
  /\ \A i \in 1..Len(rel) :
       Val(gth.result_timestamps)[i] = AbsoluteOf(dmd, gth.timestamp_format, rel[i])

\* C20: the absolute timestamp of every sample is the recording's start time
\* plus the sample's relative seconds, in the table and in the array form;
\* the ABSOLUTE_LOCAL_TIME result is the ABSOLUTE_UTC_TIME result shifted by
\* the recording's own UTC offset, and relative time 0 is the start time.
C20_AbsoluteIsStartPlusRelative ==
  /\ C20_TableAbsoluteIsStartPlusRelative
  /\ (ReadEnded("read_array") /\ gth.pc = "done"
        /\ Absolute(gth.timestamp_format)) =>
       ArrayAbsoluteIsStartPlusRelative(TimesOf(GatheredConfigs(cat, ch_names)[1]))

\* the array form is the start time plus the whole seconds of the relative
\* time
C20_ArrayAbsoluteWholeSeconds ==
  (ReadEnded("read_array") /\ gth.pc = "done"
     /\ Absolute(gth.timestamp_format)) =>
    LET rel == TimesOf(GatheredConfigs(cat, ch_names)[1])
    IN  ArrayAbsoluteIsStartPlusRelative(
          [i \in 1..Len(rel) |-> rel[i] - (rel[i] % TicksPerSecond)])

----------------------------------------------------------------------------
(* C21 *)

\* C21: the native close-file call is issued at most once for the handle
\* the reader has opened, over every sequence of construction, with-scope
\* entry and exit and close() calls, and exactly once by the time the
\* with-scope has been left.
C21_HandleReleasedExactlyOnce ==
  /\ life.closes <= 1
  /\ life.scope = "left" => life.closes = 1

\* a with-scope that is left has issued the close-file call, and without an
\* explicit close() it has issued it once
C21_ScopeExitCloses ==
  /\ life.scope = "left" => life.closes >= 1
  /\ life.calls = 0 => life.closes <= 1
  /\ life.closes <= life.calls + 1

----------------------------------------------------------------------------
(* C22 *)

\* a read operation has been called on the reader after its handle was
\* released by close()
ReadAfterClose == life.handle = "released" /\ life.op \in ReadOps

\* the operation has failed in a native wrapper with an invalid-handle code
InvalidHandleFailure ==
  /\ life.pc = "raise" /\ life.exc = "RuntimeError"
  /\ ~IsNone(life.check)
  /\ Val(life.check).code \in {INVALID_FILE_HANDLE, INVALID_CHANNEL_HANDLE}

\* C22: after close(), every read operation called on the reader fails with
\* the native-call RuntimeError for an invalid handle; none returns, and
\* none raises an exception of another type.
C22_ReadAfterCloseFails == ReadAfterClose => InvalidHandleFailure

\* after close(), the operations that read from the file handle fail with
\* the invalid-handle RuntimeError, and so does every read that gets as far
\* as a native call
C22_NativeCallAfterCloseFails ==
  (ReadAfterClose /\ (life.op \in {"headers", "markers", "measurement_duration"}
                        \/ ~IsNone(life.check))) =>
    InvalidHandleFailure

----------------------------------------------------------------------------
(* C23 *)

\* the wrapper outcome r is the one of its return code: a return for 0, and
\* for any other code the RuntimeError that carries the wrapper's name and
\* the code
TypedOutcome(r) ==
  IF r.code = 0 THEN r.pc = "done" /\ r.exc = ""
  ELSE /\ r.pc = "raise" /\ r.exc = "RuntimeError"
       /\ r.msg = <<r.location, r.code>>

\* C23: for every native wrapper and every return code, the wrapper returns
\* when the code is 0 and raises the RuntimeError with the wrapper's name
\* and the code when it is not, whether or not the code is a value of
\* ErrorCode.
C23_NonZeroCodeIsTypedFailure ==
  ~IsNone(life.check) => TypedOutcome(Val(life.check))

\* C23 for the codes that are values of ErrorCode
C23_ListedCodeIsTypedFailure ==
  (~IsNone(life.check) /\ Val(life.check).code \in ErrorCodeValues) =>
    TypedOutcome(Val(life.check))

----------------------------------------------------------------------------
(* C24 *)

\* the corrector has returned <<start, count>> for the sweep and the range
Corrected == rd.op = "corrector" /\ rd.pc = "done" /\ ~IsNone(frame)

\* start and start + count - 1 are the clamped ends of the range shifted by
\* the offset num / den
ClampedBy(sw, q, num, den) ==
  LET start == Val(frame)[1]
      last  == Val(frame)[1] + Val(frame)[2] - 1
  IN  /\ start * den = Max(sw.first_sample * den, q.start_sample * den + num)
      /\ last * den =
           IF IsNone(q.end_sample) THEN sw.last_sample * den
           ELSE Min(sw.last_sample * den, Val(q.end_sample) * den + num)
      /\ sw.first_sample <= start
      /\ last <= sw.last_sample

\* C24, as stated: with start_offset = first_sample - start_time *
\* sample_frequency, the corrector returns start = max(first_sample,
\* s + start_offset) and count = end - start + 1 for end = min(last_sample,
\* e + start_offset), or last_sample without e; first_sample <= start and
\* start + count - 1 <= last_sample.
C24_CorrectorClampsExactOffset ==
  Corrected =>
    ClampedBy(ch[1], req,
              ch[1].first_sample * ch[1].fden - ch[1].start_time * ch[1].fnum,
              ch[1].fden)

\* C24, amended: the same with start_offset = int(first_sample - start_time *
\* sample_frequency), the difference truncated towards zero.
C24_CorrectorClampsTruncatedOffset ==
  Corrected => ClampedBy(ch[1], req, StartOffset(ch[1]), 1)

\* the corrector has clamped both ends of a range on a sweep whose start time
\* lies between two sample times
C24_Witness ==
  /\ Corrected
  /\ (ch[1].start_time * ch[1].fnum) % ch[1].fden # 0
  /\ ~IsNone(req.end_sample)
  /\ req.start_sample + StartOffset(ch[1]) < ch[1].first_sample
  /\ Val(req.end_sample) + StartOffset(ch[1]) > ch[1].last_sample
  /\ Val(frame) = <<ch[1].first_sample, SweepMaxSamples(ch[1])>>

----------------------------------------------------------------------------
(* C25 *)

\* the requested start sample, shifted by the offset, lies past the sweep
StartPastSweep(sw, q) == q.start_sample + StartOffset(sw) > sw.last_sample

\* C25: when the corrected start sample exceeds the sweep's last sample, the
\* corrector fails with an IndexError and returns no start and count.
C25_StartPastSweepIsIndexError ==
  (rd.op = "corrector" /\ rd.pc # "call" /\ StartPastSweep(ch[1], req)) =>
    rd.pc = "raise" /\ rd.exc = "IndexError" /\ IsNone(frame)

\* what the corrector does instead: it returns the shifted start sample with
\* a count that is zero or negative
C25_StartPastSweepReturnsNoCount ==
  (Corrected /\ StartPastSweep(ch[1], req)) =>
    /\ Val(frame)[1] = req.start_sample + StartOffset(ch[1])
    /\ Val(frame)[2] <= 0

----------------------------------------------------------------------------
(* C26 *)

\* the read is an unbounded or a ranged read that has issued a native fetch
RawFetched == rd.op \in {"all", "ranged"} /\ ~IsNone(rd.fetch)

\* C26: every native fetch of an unbounded or a ranged read, of a
\* synchronous or an asynchronous sweep, asks for at most one block of
\* samples.
C26_FetchWithinBlockSize ==
  RawFetched => Val(rd.fetch).max <= BlockSize

\* the fetches of unbounded reads and of ranged reads of asynchronous sweeps
\* ask for at most one block
C26_BlockLoopsWithinBlockSize ==
  (RawFetched /\ (rd.op = "all" \/ IsAsync(ch[Val(rd.fetch).sweep]))) =>
    Val(rd.fetch).max <= BlockSize

\* in an unbounded read, a fetch that follows a fetch from the same sweep
\* starts where the one before has ended
C26_NextBlockStartsAtNextSample ==
  [][(rd.op = "all" /\ ~IsNone(rd.fetch) /\ rd'.fetch # rd.fetch
        /\ Val(rd'.fetch).sweep = Val(rd.fetch).sweep) =>
       Val(rd'.fetch).first =
         NativeFetch(ch, Val(rd.fetch).first, Val(rd.fetch).max).next_sample]_vars

----------------------------------------------------------------------------
(* C27 *)

\* a read that takes steps as long as one is possible: the interpreter runs
\* the loops on, nothing pre-empts or cancels them
\* the channels of one sweep recorded from time 0 on
FairChannels == {c \in Channels : Len(c) = 1 /\ c[1].start_time = 0}

\* the reads from time 0 on
FairRequests == {q \in OrderedRequests : q.start_time = 0}

InitFair ==
  /\ ch \in FairChannels
  /\ req \in FairRequests
  /\ rd = NewRead
  /\ cat = <<>> /\ channel_id = OtherRef /\ ret = NoReturn
  /\ ch_names = <<>> /\ gth = NewGather
  /\ dmd = NoRecording /\ frame = None /\ life = NewLife

NextFair == ReadCall \/ AllSweepsStep \/ RangedSweepsStep

SpecFair == InitFair /\ [][NextFair]_vars /\ WF_vars(NextFair)

RawRead == rd.op \in {"all", "ranged"}

\* the loop is at a fetch that returns no sample and leaves every variable
\* of the loop as it was: the next pass is the same pass
Spinning == RawRead /\ rd.pc = "while" /\ Step(ch, rd) = rd

\* C27: every unbounded or ranged read terminates after finitely many native
\* fetches, for every sweep table and every max_samples
C27_ReadTerminates == (RawRead /\ Running(rd)) ~> Finished(rd)

\* C27, as a state predicate: no pass of a block loop repeats itself
C27_NoPassRepeats == ~Spinning

\* C27, for the unbounded read alone
C27_UnboundedReadTerminates == (rd.op = "all" /\ Running(rd)) ~> Finished(rd)

----------------------------------------------------------------------------
(* C28 *)

\* the last native fetch was handed buffers of at least the requested size
FetchFits == ~IsNone(rd.fetch) => Val(rd.fetch).cap >= Val(rd.fetch).max

\* the read reached a fetch before any buffer was allocated
Unallocated == rd.pc = "raise" /\ rd.exc = "UnboundLocalError"

\* C28: at every native fetch of an unbounded or ranged read the buffers
\* have been allocated and hold at least the max_samples requested
C28_BuffersHoldRequest == RawRead => (FetchFits /\ ~Unallocated)

\* C28, for the unbounded read alone
C28_UnboundedBuffersHoldRequest == rd.op = "all" => (FetchFits /\ ~Unallocated)

\* C28, for the ranged read of a channel that has only synchronous sweeps
C28_SynchronousBuffersHoldRequest ==
  (rd.op = "ranged" /\ \A k \in 1..Len(ch) : ~IsAsync(ch[k])) =>
    (FetchFits /\ ~Unallocated)

----------------------------------------------------------------------------
(* C29 *)

\* the ranged read is at a sweep that passes the overlap test
AtOverlappingSweep ==
  /\ rd.op = "ranged" /\ rd.pc = "for" /\ rd.si <= Len(ch)
  /\ rd.max_samples # Some(0)
  /\ Overlaps(ch[rd.si], rd.start_time, rd.actual_end_time)

\* the frequency the branch of the sweep converts times with, <<num, den>>
FrequencyOf(sw) ==
  IF IsAsync(sw) THEN <<SweepMaxSamples(sw) - 1, sw.end_time - sw.start_time>>
  ELSE <<sw.fnum, sw.fden>>

\* <<first_sample, count>> as the branch of the sweep computes them
CorrectedOf(sw, r) ==
  LET f == FrequencyOf(sw)
  IN  GetCorrectedSampleCount(sw, TimeToSample(r.start_time, f[1], f[2]),
                              Some(TimeToSample(r.actual_end_time, f[1], f[2])))

\* a count of at least 1 whose index range lies within the sweep
WithinSweep(sw, fc) ==
  /\ fc[2] >= 1
  /\ sw.first_sample <= fc[1]
  /\ fc[1] + fc[2] - 1 <= sw.last_sample

\* C29: in a ranged read with start_time <= end_time, every sweep that
\* passes the overlap test gets a corrected count of at least 1 and an index
\* range [first_sample, first_sample + count - 1] within the sweep
C29_OverlapGivesRangeWithinSweep ==
  AtOverlappingSweep =>
    /\ FrequencyOf(ch[rd.si])[2] # 0
    /\ WithinSweep(ch[rd.si], CorrectedOf(ch[rd.si], rd))

\* C29, for the synchronous sweeps
C29_SynchronousRangeWithinSweep ==
  (AtOverlappingSweep /\ ~IsAsync(ch[rd.si])) =>
    WithinSweep(ch[rd.si], CorrectedOf(ch[rd.si], rd))

----------------------------------------------------------------------------
(* C30 *)

\* the sweep that holds the sample at position i of the channel, counted
\* from 0 over all sweeps (0 when there is none)
SweepAt(c, i) ==
  LET holding == {k \in 1..Len(c) : i < CumulativeMaxSamples(c)[k]}
  IN  IF i < 0 \/ holding = {} THEN 0
      ELSE CHOOSE k \in holding : \A l \in holding : k <= l

\* the request by index starts in one sweep and ends in a later one
SpansSweeps(c, q) ==
  /\ q.kind = "index" /\ ~IsNone(q.end_sample)
  /\ SweepAt(c, q.start_sample) # 0
  /\ SweepAt(c, Val(q.end_sample)) > SweepAt(c, q.start_sample)

\* out is a run of n consecutive samples of the channel from position start on
RunFrom(c, out, start) ==
  out = SubSeq(AllSamples(c), start + 1, start + Len(out))

\* C30: a by-index read whose range spans several sweeps returns every
\* requested sample once and in index order: a run of consecutive samples
\* from start_sample on, one per requested index (end_sample counted or not)
C30_SpanningRangeReturnsRun ==
  (SpansSweeps(ch, req) /\ Finished(rd)) =>
    /\ rd.pc = "done"
    /\ RunFrom(ch, rd.out, req.start_sample)
    /\ Len(rd.out) \in {Val(req.end_sample) - req.start_sample,
                        Val(req.end_sample) - req.start_sample + 1}

\* every by-index read of a range that spans sweeps fails with a TypeError
C30_SpanningRangeFails ==
  (SpansSweeps(ch, req) /\ Finished(rd)) => (rd.pc = "raise" /\ rd.exc = "TypeError")

============================================================================
